---------------------------- MODULE Spec2Model ----------------------------
(***************************************************************************)
(* Client lifecycle supervision of the WhatsApp session fleet:             *)
(*   - ClientStateManager   (src/src/utils/clientStateManager.js)          *)
(*   - ReconnectionManager  (src/src/utils/reconnectionManager.js)         *)
(*   - WatchdogMonitor      (src/unnamed/part_002, utils/watchdogMonitor)  *)
(*   - WhatsAppClient       (src/unnamed/part_000, whatsapp.js)            *)
(*                                                                         *)
(* Every Map of the code is a function over Clients.                       *)
(*                                                                         *)
(* Time is in milliseconds and is kept relative to the current instant:    *)
(* Date.now() is Now = 0 in every state, a stored timestamp is <= 0 (-1500 *)
(* is 1500 ms ago) and the due time of a pending timer is >= 0.  When d ms *)
(* pass, every stored time is shifted by -d (ShiftTime, ShiftDue).         *)
(***************************************************************************)
EXTENDS Integers, Sequences, FiniteSets, TLC

VARIABLES
    states,             \* ClientStateManager.states        : number -> entry | Absent
    stateHistory,       \* ClientStateManager.stateHistory  : number -> Seq(stateChange)
    event,              \* observer: the operation of the last step and what it returned
    recorded,           \* observer: every stateChange setState returned since the
                        \* last clearState of the client, in order
    script,             \* SpecStore only: the cyclic sequence of setState arguments
    reconnectAttempts,  \* ReconnectionManager.reconnectAttempts : number -> count (0: no key)
    reconnectTimers,    \* ReconnectionManager.reconnectTimers   : number -> handle | NoTimer
    lastReconnectTime,  \* ReconnectionManager.lastReconnectTime : number -> ms | NoTime
    armed,              \* the runtime's pending setTimeout timers of the manager
    inflight,           \* timer callbacks that fired and are at `await callback()`
    clients,            \* WhatsAppClient.clients          : number -> session | NoSession
    sessions,           \* the Client objects of the library, by session id
    clientReadyState,   \* WhatsAppClient.clientReadyState : number -> boolean (FALSE: no key)
    retryAttempts,      \* WhatsAppClient.retryAttempts    : number -> count (0: no key)
    tasks,              \* async methods suspended at an await
    graceTimers,        \* pending 30 s timers of handleDisconnection
    healthChecks,       \* WatchdogMonitor.healthChecks    : number -> record | Absent
    metrics,            \* WatchdogMonitor.metrics.get('summary') | NoMetrics
    stimuli,            \* API calls, session events and watchdog ticks to come
    removed,            \* observer: removeClient returned / a health check run since
    queue,              \* MediaQueue.queue      : the jobs, in insertion order
    processing,         \* MediaQueue.processing : set of messageIds
    completed,          \* MediaQueue.completed  : messageId -> entry | Absent
    workers,            \* the job each worker is processing (NoJob: polling)
    enqueues,           \* SpecMedia: enqueue calls so far
    mediaJobs,          \* observer: per messageId, whether a job was enqueued and not
                        \* purged, how often it was taken and how often it failed,
                        \* and its downloads still running after their job timed out
    smartTasks,         \* handleMediaSmart calls suspended at an await
    messageTypes,       \* message.type of the messages handleMediaSmart has seen
    smartCalls,         \* SpecSmart: handleMediaSmart calls so far
    chatCache,          \* ChatCacheManager.chatCache    : number -> (chatId -> entry) | Absent
    unreadChats,        \* ChatCacheManager.unreadChats  : number -> set of chatIds | Absent
    groupCache,         \* ChatCacheManager.groupCache   : number -> (groupId -> entry) | Absent
    isLoaded,           \* ChatCacheManager.isLoaded     : number -> boolean (FALSE: no key)
    groupsLoaded,       \* ChatCacheManager.groupsLoaded : number -> boolean (FALSE: no key)
    cacheInitScheduled, \* WhatsAppClient.cacheInitScheduled : number -> boolean (FALSE: no key)
    cacheTasks,         \* cache loads suspended at a timer or at getChats()
    cacheClock,         \* SpecCache: Date.now(), in ms
    cacheOps,           \* SpecCache: events and calls so far
    loads               \* observer: the snapshots loaded since the last clearCache

storeVars == <<recorded, script>>
rmVars == <<reconnectAttempts, reconnectTimers, lastReconnectTime, armed, inflight>>
waVars == <<clients, sessions, clientReadyState, retryAttempts, tasks, graceTimers,
            healthChecks, metrics, stimuli, removed>>
smartVars == <<smartTasks, messageTypes, smartCalls>>
mediaVars == <<queue, processing, completed, workers, enqueues, mediaJobs, smartVars>>
cacheVars == <<chatCache, unreadChats, groupCache, isLoaded, groupsLoaded,
               cacheInitScheduled, cacheTasks, cacheClock, cacheOps, loads>>
vars == <<states, stateHistory, event, recorded, script,
          reconnectAttempts, reconnectTimers, lastReconnectTime, armed, inflight,
          clients, sessions, clientReadyState, retryAttempts, tasks, graceTimers,
          healthChecks, metrics, stimuli, removed,
          queue, processing, completed, workers, enqueues, mediaJobs,
          smartTasks, messageTypes, smartCalls,
          chatCache, unreadChats, groupCache, isLoaded, groupsLoaded,
          cacheInitScheduled, cacheTasks, cacheClock, cacheOps, loads>>

-----------------------------------------------------------------------------
(* Bounds of the model *)

\* Client ids (phone numbers) of the model.
Clients == {"c1"}

\* setState calls SpecStore makes before it stops (the history limit is
\* HistoryLimit, so this is past it).
MaxRecorded == 52

\* Lengths of the cyclic argument scripts of SpecStore.
ScriptLens == {1, 2}

\* An undefined string-valued field (`previousState?.state` without an entry).
None == "None"

\* An absent entry of the states map.
Absent == [absent |-> TRUE]

\* getStateAge's null.
NoAge == -1

Min(a, b) == IF a <= b THEN a ELSE b
Max(a, b) == IF a >= b THEN a ELSE b

-----------------------------------------------------------------------------
(* Time *)

\* Date.now()
Now == 0

\* A missing key of a map of timestamps (no past instant is positive).
NoTime == 1

\* Thresholds of the watchdog (part_002 15-20).
maxStateAge == 900000
maxQrAge == 180000
maxInitializationTime == 300000

\* A stored timestamp is kept exactly up to the age beyond which no
\* comparison of the code tells ages apart, and stays there: the timestamp
\* of a state entry up to Horizon (`stateAge > maxStateAge`), the time of
\* the last reconnection up to minSpacing (`Date.now() - lastAttempt <
\* 2000`), the timestamps of the history, which the code never compares, up
\* to HistoryHorizon.
Horizon == maxStateAge + 1
HistoryHorizon == 100

\* A timestamp after d more milliseconds.
ShiftTimeWithin(time, d, horizon) ==
    IF time = NoTime THEN NoTime ELSE Max(time - d, 0 - horizon)

ShiftTime(time, d) == ShiftTimeWithin(time, d, Horizon)

\* A timer's due time after d more milliseconds (0: due, it may fire).
ShiftDue(due, d) == Max(due - d, 0)

-----------------------------------------------------------------------------
(* ClientStateManager *)

CLIENT_STATES ==
    {"INITIALIZING", "WAITING_QR", "AUTHENTICATING", "AUTHENTICATED", "READY",
     "DISCONNECTED", "AUTH_FAILURE", "ERROR", "RECONNECTING", "ZOMBIE"}

\* `if (history.length > 50) history.shift()`
HistoryLimit == 50

\* metadata objects are free-form; the model keeps a tag naming the call site.
Metadata == {"none", "reason"}

\* The manager's two maps as one value, so that calls compose.
Store == [states |-> states, stateHistory |-> stateHistory]

\* `previousState?.state`: undefined (None) when there is no entry.
PrevStateOf(st, number) ==
    IF st.states[number] = Absent THEN None ELSE st.states[number].state

\* Mutant: `from` read after states.set, so it is the new state.
StateChange_FromReadLate(st, number, state, metadata, t) ==
    [number    |-> number,
     from      |-> state,
     to        |-> state,
     timestamp |-> t,
     metadata  |-> metadata]

\* The stateChange record setState builds and returns.
StateChange(st, number, state, metadata, t) ==
    [number    |-> number,
     from      |-> IF PrevStateOf(st, number) = None
                   THEN "UNKNOWN" ELSE PrevStateOf(st, number),
     to        |-> state,
     timestamp |-> t,
     metadata  |-> metadata]

\* Mutant: history.pop() in place of history.shift().
PushHistory_Pop(history, stateChange) ==
    LET pushed == Append(history, stateChange)
    IN  IF Len(pushed) > HistoryLimit
        THEN SubSeq(pushed, 1, Len(pushed) - 1) ELSE pushed

\* history.push(stateChange); if (history.length > 50) history.shift();
PushHistory(history, stateChange) ==
    LET pushed == Append(history, stateChange)
    IN  IF Len(pushed) > HistoryLimit THEN Tail(pushed) ELSE pushed

\* setState(number, state, metadata): the manager after the call.
setState(st, number, state, metadata, t) ==
    [states |->
        [st.states EXCEPT ![number] =
            [state         |-> state,
             timestamp     |-> t,
             metadata      |-> metadata,
             previousState |-> PrevStateOf(st, number)]],
     stateHistory |->
        [st.stateHistory EXCEPT ![number] =
            PushHistory(st.stateHistory[number],
                        StateChange(st, number, state, metadata, t))]]

getState(st, number) == st.states[number]

\* The state of a client as setState reports it in `from`.
FromOf(entry) == IF entry = Absent THEN "UNKNOWN" ELSE entry.state

\* `this.stateHistory.get(number) || []`
getHistory(st, number) == st.stateHistory[number]

\* Mutant: AUTHENTICATING listed among the healthy states.
isHealthy_Authenticating(st, number) ==
    IF getState(st, number) = Absent
    THEN FALSE
    ELSE getState(st, number).state
            \in {"AUTHENTICATING", "AUTHENTICATED", "READY"}

isHealthy(st, number) ==
    IF getState(st, number) = Absent
    THEN FALSE
    ELSE getState(st, number).state \in {"AUTHENTICATED", "READY"}

isRecoverable(st, number) ==
    IF getState(st, number) = Absent
    THEN TRUE
    ELSE getState(st, number).state \notin {"ZOMBIE", "ERROR"}

\* null (None) without an entry, else Date.now() - state.timestamp
getStateAge(st, number, t) ==
    IF getState(st, number) = Absent
    THEN NoAge
    ELSE t - getState(st, number).timestamp

\* states.delete(number); stateHistory.delete(number)
clearState(st, number) ==
    [states       |-> [st.states EXCEPT ![number] = Absent],
     stateHistory |-> [st.stateHistory EXCEPT ![number] = << >>]]

\* The store after d more milliseconds.
ShiftEntry(entry, d) ==
    IF entry = Absent
    THEN Absent
    ELSE [entry EXCEPT !.timestamp = ShiftTime(@, d)]

ShiftHistory(history, d) ==
    [i \in 1..Len(history) |->
        [history[i] EXCEPT !.timestamp = ShiftTimeWithin(@, d, HistoryHorizon)]]

ShiftStore(st, d) ==
    [states       |-> [c \in Clients |-> ShiftEntry(st.states[c], d)],
     stateHistory |-> [c \in Clients |-> ShiftHistory(st.stateHistory[c], d)]]

SetStore(st) ==
    /\ states' = st.states
    /\ stateHistory' = st.stateHistory

-----------------------------------------------------------------------------
(* ReconnectionManager *)

\* this.config (reconnectionManager.js 12-18, conf/config.js 13-14):
\* baseDelay = config.reconnectDelay || 5000, and config.reconnectDelay is
\* parseInt(RECONNECT_DELAY) || 5000.
baseDelay == 5000
maxDelay == 300000
\* maxAttempts = config.maxRetries || 10, and config.maxRetries is
\* parseInt(MAX_RETRIES) || 3: never falsy, so 3 without an override.
maxAttempts == 3
backoffMultiplier == 2
\* jitterFactor = 0.1 = 1 / jitterFactorInv
jitterFactorInv == 10
\* `Date.now() - lastAttempt < 2000`
minSpacing == 2000

\* Math.random() is one of k / RandomSteps, k in 0 .. RandomSteps - 1.
RandomSteps == 4
Randoms == 0..(RandomSteps - 1)

\* Timer callbacks of one client awaiting their callback at the same time.
MaxInflight == 2

\* Timeout handles; NoTimer is a missing key of reconnectTimers.
NoTimer == 0
TimerIds == 1..(MaxInflight + 2)

\* scheduleReconnection's null.
Null == [null |-> TRUE]

\* The manager's maps and the runtime's pending timers as one value.
RM ==
    [reconnectAttempts |-> reconnectAttempts,
     reconnectTimers   |-> reconnectTimers,
     lastReconnectTime |-> lastReconnectTime,
     armed             |-> armed]

\* The manager and its timers after d more milliseconds.
ShiftRM(r, d) ==
    [r EXCEPT
        !.lastReconnectTime =
            [c \in Clients |-> ShiftTimeWithin(r.lastReconnectTime[c], d, minSpacing)],
        !.armed = {[t EXCEPT !.armedAt = ShiftTimeWithin(@, d, minSpacing),
                             !.due = ShiftDue(@, d)]
                    : t \in r.armed}]

SetRM(r) ==
    /\ reconnectAttempts' = r.reconnectAttempts
    /\ reconnectTimers' = r.reconnectTimers
    /\ lastReconnectTime' = r.lastReconnectTime
    /\ armed' = r.armed

RECURSIVE Pow(_, _)
Pow(b, e) == IF e = 0 THEN 1 ELSE b * Pow(b, e - 1)

\* `this.reconnectAttempts.get(number) || 0`
getAttempts(r, number) == r.reconnectAttempts[number]

incrementAttempts(r, number) ==
    [r EXCEPT !.reconnectAttempts[number] = getAttempts(r, number) + 1]

\* Mutant: the map entry is deleted but clearTimeout is not called.
clearTimer_NoClearTimeout(r, number) ==
    [r EXCEPT !.reconnectTimers[number] = NoTimer]

\* clearTimeout(timer) of the stored handle (a no-op for a handle whose timer
\* has fired), then reconnectTimers.delete(number).
clearTimer(r, number) ==
    IF r.reconnectTimers[number] # NoTimer
    THEN [r EXCEPT !.armed = {t \in @ : t.id # r.reconnectTimers[number]},
                   !.reconnectTimers[number] = NoTimer]
    ELSE r

\* Mutant: resetAttempts without clearTimer.
resetAttempts_KeepTimer(r, number) ==
    [r EXCEPT !.reconnectAttempts[number] = 0,
              !.lastReconnectTime[number] = NoTime]

resetAttempts(r, number) ==
    LET deleted == [r EXCEPT !.reconnectAttempts[number] = 0]
        cleared == clearTimer(deleted, number)
    IN  [cleared EXCEPT !.lastReconnectTime[number] = NoTime]

\* Mutant: the exponent is the number of attempts made before this one.
calculateDelay_PreviousAttempts(attempt, k) ==
    LET delay == Min(baseDelay * Pow(backoffMultiplier, attempt - 1), maxDelay)
        den   == RandomSteps * jitterFactorInv
    IN  (delay * den + delay * (2 * k - RandomSteps)) \div den

\* Mutant: a jitter of +-50% of the delay.
calculateDelay_WideJitter(attempt, k) ==
    LET delay == Min(baseDelay * Pow(backoffMultiplier, attempt), maxDelay)
        den   == RandomSteps * 2
    IN  (delay * den + delay * (2 * k - RandomSteps)) \div den

\* calculateDelay(attempt) with Math.random() = k / RandomSteps, in exact
\* arithmetic: floor(delay + delay * jitterFactor * (random * 2 - 1)).
calculateDelay(attempt, k) ==
    LET delay == Min(baseDelay * Pow(backoffMultiplier, attempt), maxDelay)
        den   == RandomSteps * jitterFactorInv
    IN  (delay * den + delay * (2 * k - RandomSteps)) \div den

\* `lastAttempt && ...`: a missing key is falsy (Date.now() itself is never 0
\* in the code, so a stored time is truthy).
Truthy(time) == time # NoTime

\* Mutant: `attempts > maxAttempts`.
canReconnect_OffByOne(r, number, t) ==
    /\ ~(getAttempts(r, number) > maxAttempts)
    /\ ~(/\ Truthy(r.lastReconnectTime[number])
         /\ t - r.lastReconnectTime[number] < minSpacing)

\* Mutant: the spacing guard left out.
canReconnect_NoSpacing(r, number, t) ==
    ~(getAttempts(r, number) >= maxAttempts)

canReconnect(r, number, t) ==
    /\ ~(getAttempts(r, number) >= maxAttempts)
    /\ ~(/\ Truthy(r.lastReconnectTime[number])
         /\ t - r.lastReconnectTime[number] < minSpacing)

\* The handle setTimeout returns: the least one not in use.
UsedTimerIds(r, fl) ==
    {t.id : t \in r.armed} \cup {f.id : f \in fl}
        \cup {r.reconnectTimers[c] : c \in Clients}

HasFreshTimerId(r, fl) == TimerIds \ UsedTimerIds(r, fl) # {}

FreshTimerId(r, fl) ==
    CHOOSE i \in TimerIds \ UsedTimerIds(r, fl) :
        \A j \in TimerIds \ UsedTimerIds(r, fl) : i <= j

\* What scheduleReconnection(number, callback) returns at time t.
ScheduleResult(r, number, k, t) ==
    IF ~canReconnect(r, number, t)
    THEN Null
    ELSE [attempt |-> getAttempts(r, number) + 1,
          delay   |-> calculateDelay(getAttempts(r, number) + 1, k)]

\* The manager after scheduleReconnection(number, callback) at time t; fl are
\* the callbacks in flight (their handles are in use).
scheduleReconnection(r, number, callback, k, t, fl) ==
    IF ~canReconnect(r, number, t)
    THEN r
    ELSE LET counted == incrementAttempts(r, number)
             attempt == getAttempts(counted, number)
             delay   == calculateDelay(attempt, k)
             cleared == clearTimer(counted, number)
             timer   == [id       |-> FreshTimerId(cleared, fl),
                         number   |-> number,
                         armedAt  |-> t,
                         due      |-> t + delay,
                         callback |-> callback]
         IN  [cleared EXCEPT !.armed = @ \cup {timer},
                             !.reconnectTimers[number] = timer.id]

getStatus(r, number, t) ==
    [attempts              |-> getAttempts(r, number),
     maxAttempts           |-> maxAttempts,
     hasScheduledReconnect |-> r.reconnectTimers[number] # NoTimer,
     lastReconnectTime     |-> r.lastReconnectTime[number],
     canReconnect          |-> canReconnect(r, number, t)]

\* The setTimeout callback up to `await callback()`.
timerFired(r, timer, t) ==
    [r EXCEPT !.armed = @ \ {timer},
              !.lastReconnectTime[timer.number] = t]

\* The callback resolved: resetAttempts(number).
callbackResolved(r, number) == resetAttempts(r, number)

\* The callback rejected: `if (this.canReconnect(number))
\* this.scheduleReconnection(number, callback)`.
callbackRejected(r, number, callback, k, t, fl) ==
    IF canReconnect(r, number, t)
    THEN scheduleReconnection(r, number, callback, k, t, fl)
    ELSE r

-----------------------------------------------------------------------------
(* WhatsAppClient (whatsapp.js): the orchestrator                          *)
(*                                                                         *)
(* A Client object of the library is a session record: whether its browser *)
(* was launched and is connected (pupBrowser, isConnected()), whether it   *)
(* has a page and the page answers (pupPage, evaluate), whether it holds   *)
(* an identity (info.pushname), and whether it has not been destroyed or   *)
(* logged out (live).  An async method suspended at an await is a task     *)
(* record; what runs between two awaits is one step.                       *)

\* static MAX_RETRIES = config.maxRetries || 3
MAX_RETRIES == 3

\* setTimeout(..., 30000) of handleDisconnection
graceDelay == 30000

\* Client objects that exist at the same time.
MaxSessions == 3
SessionIds == 1..MaxSessions

\* clients.get(number) === undefined
NoSession == 0

\* setTimeout(() => resolve(false), 5000) of checkBrowserResponsive
probeTimeout == 5000

\* An unused session slot.
NoSess ==
    [number |-> None, browser |-> "none", page |-> "none", info |-> "none",
     live |-> FALSE]

\* new Client(clientConfig): no browser, no page, no info yet.
NewClient(number) ==
    [number |-> number, browser |-> "none", page |-> "none", info |-> "none",
     live |-> TRUE]

\* The whole program state as one value, so that calls compose.
World ==
    [states            |-> states,
     stateHistory      |-> stateHistory,
     reconnectAttempts |-> reconnectAttempts,
     reconnectTimers   |-> reconnectTimers,
     lastReconnectTime |-> lastReconnectTime,
     armed             |-> armed,
     inflight          |-> inflight,
     clients           |-> clients,
     sessions          |-> sessions,
     clientReadyState  |-> clientReadyState,
     retryAttempts     |-> retryAttempts,
     tasks             |-> tasks,
     graceTimers       |-> graceTimers,
     healthChecks      |-> healthChecks,
     metrics           |-> metrics]

StoreOf(w) == [states |-> w.states, stateHistory |-> w.stateHistory]

WithStore(w, st) ==
    [w EXCEPT !.states = st.states, !.stateHistory = st.stateHistory]

RMOf(w) ==
    [reconnectAttempts |-> w.reconnectAttempts,
     reconnectTimers   |-> w.reconnectTimers,
     lastReconnectTime |-> w.lastReconnectTime,
     armed             |-> w.armed]

WithRM(w, r) ==
    [w EXCEPT !.reconnectAttempts = r.reconnectAttempts,
              !.reconnectTimers   = r.reconnectTimers,
              !.lastReconnectTime = r.lastReconnectTime,
              !.armed             = r.armed]

\* stateManager.setState(number, state, metadata) at the current instant.
StateManagerSetState(w, number, state, metadata) ==
    WithStore(w, setState(StoreOf(w), number, state, metadata, Now))

\* reconnectionManager.resetAttempts(number)
ReconnectionManagerReset(w, number) ==
    WithRM(w, resetAttempts(RMOf(w), number))

\* reconnectionManager.scheduleReconnection(number, callback); the return
\* value is ignored by every caller.
ReconnectionManagerSchedule(w, number, callback, k) ==
    WithRM(w, scheduleReconnection(RMOf(w), number, callback, k, Now, w.inflight))

\* An async method of the orchestrator or the watchdog suspended at `pc`.
\* origin is the handle of the scheduler timer whose callback awaits it
\* (NoTimer: another caller), sid the Client object it works on, due the
\* time left to the 5 s timer of a probe (0 for every other await), refreshed
\* the Client object refreshClient has called initialize() on.
Task(kind, pc, number, origin, sid) ==
    [kind |-> kind, pc |-> pc, number |-> number, origin |-> origin, sid |-> sid,
     retryCount |-> 0, processAlive |-> TRUE, state |-> None,
     rest |-> << >>, due |-> 0, refreshed |-> NoSession]

\* The scheduler's timer callback after `await callback()` resolved
\* (reconnectionManager.js 89-90); nothing for another caller.
timerCallbackResolved(w, task) ==
    IF task.origin # NoTimer
    THEN [WithRM(w, callbackResolved(RMOf(w), task.number))
            EXCEPT !.inflight = {f \in @ : f.id # task.origin}]
    ELSE w

\* The scheduler's timer callback after `await callback()` rejected
\* (reconnectionManager.js 91-98); for another caller the error is thrown on.
timerCallbackRejected(w, task, k) ==
    IF task.origin # NoTimer
    THEN LET fl == {f \in w.inflight : f.id # task.origin}
         IN  [WithRM(w, callbackRejected(RMOf(w), task.number, task.kind, k, Now, fl))
                EXCEPT !.inflight = fl]
    ELSE w

\* Boolean(client?.info?.pushname)
isAuthenticated(w, number) ==
    /\ w.clients[number] # NoSession
    /\ w.sessions[w.clients[number]].info = "named"

isReady(w, number) ==
    /\ w.clients[number] # NoSession
    /\ w.clientReadyState[number]
    /\ w.sessions[w.clients[number]].page # "none"
    /\ w.sessions[w.clients[number]].browser = "connected"
    /\ w.sessions[w.clients[number]].info # "none"

\* cleanupClient up to its first await: a launched browser's process is
\* killed (SIGINT).
cleanupClientKill(w, sid) ==
    IF w.sessions[sid].browser # "none"
    THEN [w EXCEPT !.sessions[sid].browser = "disconnected"]
    ELSE w

\* cleanupClient's `await client.destroy()`: closes the browser; without a
\* browser it throws, which cleanupClient catches and logs.
cleanupClientDestroy(w, sid) ==
    IF w.sessions[sid].browser # "none"
    THEN [w EXCEPT !.sessions[sid].browser = "disconnected",
                   !.sessions[sid].live = FALSE]
    ELSE w

\* createClient's `retryCount >= MAX_RETRIES` and what it does before throwing.
createClientThrows(w, number) == w.retryAttempts[number] >= MAX_RETRIES

createClientThrown(w, number) == [w EXCEPT !.retryAttempts[number] = 0]

HasFreshSession(w) == \E i \in SessionIds : w.sessions[i] = NoSess

FreshSessionId(w) ==
    CHOOSE i \in SessionIds :
        /\ w.sessions[i] = NoSess
        /\ \A j \in SessionIds : w.sessions[j] = NoSess => i <= j

\* setupClientEvents: this.clientReadyState.set(number, false); setState
\* INITIALIZING.  (client.pupBrowser and client.pupPage are undefined before
\* initialize(), so setupPuppeteerErrorHandlers registers nothing.)
setupClientEvents(w, number) ==
    StateManagerSetState([w EXCEPT !.clientReadyState[number] = FALSE],
                         number, "INITIALIZING", "none")

\* createClient from `new Client` to `await client.initialize()`, on behalf
\* of task (the addClient or recoverClient that awaits it).
createClient(w, number, task) ==
    LET sid     == FreshSessionId(w)
        created == [w EXCEPT !.sessions[sid] = NewClient(number),
                             !.clients[number] = sid]
        wired   == setupClientEvents(created, number)
    IN  [wired EXCEPT !.tasks = @ \cup
            {[task EXCEPT !.pc = "initialize", !.sid = sid,
                          !.retryCount = w.retryAttempts[number]]}]

\* `await client.initialize()` resolved: retryAttempts.delete; recoverClient
\* then calls resetAttempts; the caller's promise resolves.
initializeResolved(w, task) ==
    LET created  == [w EXCEPT !.tasks = @ \ {task},
                              !.retryAttempts[task.number] = 0]
        returned == IF task.kind = "recoverClient"
                    THEN ReconnectionManagerReset(created, task.number)
                    ELSE created
    IN  timerCallbackResolved(returned, task)

\* `await client.initialize()` rejected: retryAttempts.set(number,
\* retryCount + 1) with the count read when createClient started; the error
\* is thrown on by createClient and its caller.
initializeRejected(w, task, k) ==
    timerCallbackRejected(
        [w EXCEPT !.tasks = @ \ {task},
                  !.retryAttempts[task.number] = task.retryCount + 1],
        task, k)

\* recoverClient from clients.delete to `await this.createClient(...)`.
recoverClientCreate(w, task, k) ==
    LET deleted == [w EXCEPT !.clients[task.number] = NoSession,
                             !.clientReadyState[task.number] = FALSE]
    IN  IF createClientThrows(deleted, task.number)
        THEN timerCallbackRejected(createClientThrown(deleted, task.number), task, k)
        ELSE createClient(deleted, task.number, task)

\* recoverClient(number) up to its first await.
recoverClient(w, number, origin, k) ==
    LET task         == Task("recoverClient", "cleanup", number, origin,
                             w.clients[number])
        reconnecting == StateManagerSetState(w, number, "RECONNECTING", "none")
    IN  IF w.clients[number] # NoSession
        THEN [cleanupClientKill(reconnecting, w.clients[number])
                EXCEPT !.tasks = @ \cup {task}]
        ELSE recoverClientCreate(reconnecting, task, k)

\* recoverClient after `await this.cleanupClient(client)`.
recoverClientCleaned(w, task, k) ==
    recoverClientCreate(
        cleanupClientDestroy([w EXCEPT !.tasks = @ \ {task}], task.sid), task, k)

\* addClient(number) up to `await fs.mkdir(...)`.
addClient(w, number, origin) ==
    [w EXCEPT !.tasks = @ \cup {Task("addClient", "mkdir", number, origin, NoSession)}]

\* addClient after fs.mkdir: `await this.createClient(number, sessionDir)`.
addClientCreate(w, task, k) ==
    LET resumed == [w EXCEPT !.tasks = @ \ {task}]
    IN  IF createClientThrows(resumed, task.number)
        THEN timerCallbackRejected(createClientThrown(resumed, task.number), task, k)
        ELSE createClient(resumed, task.number, task)

\* forceReconnect(number)
forceReconnect(w, number, k) ==
    recoverClient(ReconnectionManagerReset(w, number), number, NoTimer, k)

\* The session's event handlers registered by setupClientEvents.
onQr(w, number) == StateManagerSetState(w, number, "WAITING_QR", "none")

onAuthenticated(w, number) ==
    StateManagerSetState(w, number, "AUTHENTICATED", "none")

\* `ready` of session sid (the library has set client.info before emitting).
onReady(w, sid) ==
    LET number == w.sessions[sid].number
        marked == [w EXCEPT !.sessions[sid].info = "named",
                            !.clientReadyState[number] = TRUE]
    IN  ReconnectionManagerReset(
            StateManagerSetState(marked, number, "READY", "none"), number)

\* `loading_screen`
onLoadingScreen(w, number) ==
    IF /\ getState(StoreOf(w), number) # Absent
       /\ getState(StoreOf(w), number).state = "READY"
    THEN w
    ELSE StateManagerSetState(w, number, "INITIALIZING", "reason")

\* `auth_failure`: setState, then handleAuthFailure up to
\* `await this.removeDirectory(sessionDir)`.
onAuthFailure(w, number) ==
    [StateManagerSetState(w, number, "AUTH_FAILURE", "reason")
        EXCEPT !.tasks = @ \cup
            {Task("handleAuthFailure", "removeDirectory", number, NoTimer, NoSession)}]

\* handleAuthFailure after removeDirectory resolved.
handleAuthFailureSchedule(w, task, k) ==
    ReconnectionManagerSchedule([w EXCEPT !.tasks = @ \ {task}],
                                task.number, "recoverClient", k)

\* initiateReconnection(number) up to its first await.
initiateReconnection(w, number, k) ==
    LET disconnected == StateManagerSetState(w, number, "DISCONNECTED", "reason")
    IN  IF w.clients[number] # NoSession
        THEN [cleanupClientKill(disconnected, w.clients[number])
                EXCEPT !.tasks = @ \cup
                    {Task("initiateReconnection", "cleanup", number, NoTimer,
                          w.clients[number])}]
        ELSE ReconnectionManagerSchedule(disconnected, number, "recoverClient", k)

\* initiateReconnection after `await this.cleanupClient(client)`.
initiateReconnectionSchedule(w, task, k) ==
    ReconnectionManagerSchedule(
        cleanupClientDestroy([w EXCEPT !.tasks = @ \ {task}], task.sid),
        task.number, "recoverClient", k)

\* Mutant: a client that still has its session is reconnected at once.
handleDisconnection_NoGrace(w, number, k) ==
    IF w.clients[number] = NoSession
    THEN w
    ELSE initiateReconnection(w, number, k)

\* handleDisconnection(number, reason)
handleDisconnection(w, number, k) ==
    IF w.clients[number] = NoSession
    THEN w
    ELSE IF /\ w.sessions[w.clients[number]].info # "none"
            /\ isAuthenticated(w, number)
         THEN [StateManagerSetState(w, number, "DISCONNECTED", "reason")
                EXCEPT !.graceTimers = @ \cup
                    {[number |-> number, due |-> Now + graceDelay]}]
         ELSE initiateReconnection(w, number, k)

\* The 30 s timer of handleDisconnection fires.
graceTimerFired(w, timer, k) ==
    LET fired == [w EXCEPT !.graceTimers = @ \ {timer}]
    IN  IF /\ fired.clients[timer.number] # NoSession
           /\ ~isReady(fired, timer.number)
        THEN initiateReconnection(fired, timer.number, k)
        ELSE fired

\* removeClient(number) up to `await client.logout()` (it throws 'Client not
\* found' without a client).
removeClient(w, number) ==
    [w EXCEPT !.tasks = @ \cup
        {Task("removeClient", "logout", number, NoTimer, w.clients[number])}]

\* removeClient after logout resolved (the library closes the session's
\* browser): clients.delete, then `await this.removeDirectory(sessionDir)`.
removeClientLoggedOut(w, task) ==
    [w EXCEPT !.sessions[task.sid].browser = "disconnected",
              !.sessions[task.sid].live = FALSE,
              !.clients[task.number] = NoSession,
              !.tasks = (@ \ {task}) \cup {[task EXCEPT !.pc = "removeDirectory"]}]

\* removeClient returns, or throws the error of logout or removeDirectory.
removeClientSettled(w, task) == [w EXCEPT !.tasks = @ \ {task}]

-----------------------------------------------------------------------------
(* WatchdogMonitor (utils/watchdogMonitor.js)                              *)
(*                                                                         *)
(* performHealthCheck runs the checks of the clients one after the other;  *)
(* the run is suspended at the awaits of checkBrowserResponsive            *)
(* (evaluate), fullRestart (cleanupClient), refreshClient (initialize) and *)
(* reconnectWebSocket (reload).  The `timestamp: new Date()` fields of the *)
(* health record and of the summary are left out.                          *)

\* updateMetrics(): metrics.set('summary', ...)
updateMetrics(w) ==
    LET registered == {c \in Clients : w.clients[c] # NoSession}
        healthy    == {c \in Clients : /\ w.healthChecks[c] # Absent
                                       /\ w.healthChecks[c].isHealthy}
        nameOf(c)  == IF getState(StoreOf(w), c) = Absent
                      THEN "UNKNOWN" ELSE getState(StoreOf(w), c).state
    IN  [w EXCEPT !.metrics =
            [totalClients      |-> Cardinality(registered),
             healthyClients    |-> Cardinality(healthy),
             unhealthyClients  |-> Cardinality(registered) - Cardinality(healthy),
             stateDistribution |->
                [s \in CLIENT_STATES \cup {"UNKNOWN"} |->
                    Cardinality({c \in registered : nameOf(c) = s})]]]

\* checkProcessAlive(client, number): its result ...
checkProcessAliveResult(w, sid, number) ==
    /\ w.sessions[sid].browser # "none"
    /\ \/ w.sessions[sid].browser = "connected"
       \/ /\ w.sessions[sid].info # "none"
          /\ isAuthenticated(w, number)

\* ... and its effect: ZOMBIE for a disconnected browser without a session.
checkProcessAlive(w, sid, number) ==
    IF /\ w.sessions[sid].browser = "disconnected"
       /\ ~(w.sessions[sid].info # "none" /\ isAuthenticated(w, number))
    THEN StateManagerSetState(w, number, "ZOMBIE", "reason")
    ELSE w

\* checkStateValid(number, state): state is the snapshot taken when the check
\* started (None: no entry), the age is read from the store now.
checkStateValid(w, number, state) ==
    LET stateAge == getStateAge(StoreOf(w), number, Now)
    IN  /\ state # None
        /\ ~(state = "WAITING_QR" /\ stateAge > maxQrAge)
        /\ ~(state = "INITIALIZING" /\ stateAge > maxInitializationTime)
        /\ ~(/\ state \in {"AUTHENTICATING", "RECONNECTING", "DISCONNECTED"}
             /\ stateAge > maxStateAge)

\* Mutant: no allowance for the states of a normal startup.
checkWebSocketActive_NoAllowance(w, sid, number) ==
    \/ w.sessions[sid].info # "none"
    \/ isReady(w, number)

\* checkWebSocketActive(client, number)
checkWebSocketActive(w, sid, number) ==
    \/ /\ getState(StoreOf(w), number) # Absent
       /\ getState(StoreOf(w), number).state
            \in {"INITIALIZING", "AUTHENTICATING", "WAITING_QR"}
    \/ w.sessions[sid].info # "none"
    \/ isReady(w, number)

RECURSIVE performHealthCheck(_, _, _)
RECURSIVE checkClientHealth(_, _, _, _)
RECURSIVE checkClientHealthChecked(_, _, _, _)
RECURSIVE attemptRecovery(_, _, _, _, _, _)
RECURSIVE fullRestart(_, _, _)
RECURSIVE fullRestartSchedule(_, _, _)
RECURSIVE refreshClient(_, _, _)
RECURSIVE reconnectWebSocket(_, _, _)

\* performHealthCheck from the client at the head of keys on, up to the next
\* await or to its end (updateMetrics).
performHealthCheck(w, keys, k) ==
    IF keys = << >>
    THEN updateMetrics(w)
    ELSE checkClientHealth(w, Head(keys), Tail(keys), k)

\* checkClientHealth(number) up to the await of checkBrowserResponsive.
checkClientHealth(w, number, rest, k) ==
    LET sid   == w.clients[number]
        task  == [Task("checkClientHealth", "evaluate", number, NoTimer, sid)
                    EXCEPT !.state = PrevStateOf(StoreOf(w), number),
                           !.processAlive = checkProcessAliveResult(w, sid, number),
                           !.rest = rest,
                           !.due = Now + probeTimeout]
    IN  IF sid = NoSession
        THEN performHealthCheck(WithStore(w, clearState(StoreOf(w), number)), rest, k)
        ELSE IF w.sessions[sid].page = "none"
             THEN checkClientHealthChecked(checkProcessAlive(w, sid, number),
                                           [task EXCEPT !.due = 0], FALSE, k)
             ELSE [checkProcessAlive(w, sid, number)
                     EXCEPT !.tasks = @ \cup {task}]

\* Mutant: isHealthy leaves the session-link check out.
checkClientHealthChecked_IgnoreLink(w, task, browserResponsive, k) ==
    LET checks ==
            [processAlive      |-> task.processAlive,
             browserResponsive |-> browserResponsive,
             stateValid        |-> checkStateValid(w, task.number, task.state),
             websocketActive   |-> checkWebSocketActive(w, task.sid, task.number)]
        isHealthyNow ==
            /\ checks.processAlive
            /\ checks.browserResponsive
            /\ checks.stateValid
        noted == [w EXCEPT !.healthChecks[task.number] =
                    [checks |-> checks, isHealthy |-> isHealthyNow,
                     state |-> task.state]]
    IN  IF isHealthyNow
        THEN performHealthCheck(noted, task.rest, k)
        ELSE attemptRecovery(noted, task, checks.processAlive,
                             checks.browserResponsive, checks.stateValid, k)

\* checkClientHealth from checkStateValid on, browserResponsive known.
checkClientHealthChecked(w, task, browserResponsive, k) ==
    LET checks ==
            [processAlive      |-> task.processAlive,
             browserResponsive |-> browserResponsive,
             stateValid        |-> checkStateValid(w, task.number, task.state),
             websocketActive   |-> checkWebSocketActive(w, task.sid, task.number)]
        isHealthyNow ==
            /\ checks.processAlive
            /\ checks.browserResponsive
            /\ checks.stateValid
            /\ checks.websocketActive
        noted == [w EXCEPT !.healthChecks[task.number] =
                    [checks |-> checks, isHealthy |-> isHealthyNow,
                     state |-> task.state]]
    IN  IF isHealthyNow
        THEN performHealthCheck(noted, task.rest, k)
        ELSE attemptRecovery(noted, task, checks.processAlive,
                             checks.browserResponsive, checks.stateValid, k)

\* checkBrowserResponsive after the await: evaluate throws on a browser that
\* is not connected (caught: false), times out after 5 s on a page that does
\* not answer (false), and answers true otherwise.
probeResult(w, task) ==
    /\ w.sessions[task.sid].browser = "connected"
    /\ w.sessions[task.sid].page # "hung"

\* `if (!isResponsive)`: ZOMBIE for a probe that timed out, nothing for one
\* that threw.
probeSettled(w, task) ==
    LET resumed == [w EXCEPT !.tasks = @ \ {task}]
    IN  IF /\ w.sessions[task.sid].browser = "connected"
           /\ w.sessions[task.sid].page = "hung"
        THEN StateManagerSetState(resumed, task.number, "ZOMBIE", "reason")
        ELSE resumed

\* checkClientHealth resumed after `await this.checkBrowserResponsive(...)`.
evaluateSettled(w, task, k) ==
    checkClientHealthChecked(probeSettled(w, task), [task EXCEPT !.due = 0],
                             probeResult(w, task), k)

\* attemptRecovery(number, failedChecks)
attemptRecovery(w, task, processAlive, browserResponsive, stateValid, k) ==
    IF ~processAlive \/ ~browserResponsive
    THEN fullRestart(
            StateManagerSetState(w, task.number, "RECONNECTING", "reason"), task, k)
    ELSE IF ~stateValid
         THEN refreshClient(w, task, k)
         ELSE reconnectWebSocket(w, task, k)

\* fullRestart(number) up to `await this.whatsappClient.cleanupClient(client)`.
fullRestart(w, task, k) ==
    IF w.clients[task.number] # NoSession
    THEN [cleanupClientKill(w, w.clients[task.number])
            EXCEPT !.tasks = @ \cup
                {[task EXCEPT !.pc = "fullRestart", !.sid = w.clients[task.number]]}]
    ELSE fullRestartSchedule(w, task, k)

\* fullRestart from clients.delete on; the health check run then goes on.
fullRestartSchedule(w, task, k) ==
    performHealthCheck(
        ReconnectionManagerSchedule(
            [w EXCEPT !.clients[task.number] = NoSession],
            task.number, "addClient", k),
        task.rest, k)

\* fullRestart after cleanupClient.
fullRestartCleaned(w, task, k) ==
    fullRestartSchedule(
        cleanupClientDestroy([w EXCEPT !.tasks = @ \ {task}], task.sid), task, k)

\* refreshClient(number) up to `await client.initialize()`.
refreshClient(w, task, k) ==
    IF w.clients[task.number] = NoSession
    THEN performHealthCheck(w, task.rest, k)
    ELSE [w EXCEPT !.tasks = @ \cup
            {[task EXCEPT !.pc = "refreshClient", !.sid = w.clients[task.number],
                          !.refreshed = w.clients[task.number]]}]

\* refreshClient after initialize() resolved (the library has launched a
\* browser for the session).
refreshClientResolved(w, task, k) ==
    performHealthCheck(
        StateManagerSetState(
            [w EXCEPT !.tasks = @ \ {task},
                      !.sessions[task.sid].browser = "connected",
                      !.sessions[task.sid].page = "ok",
                      !.sessions[task.sid].live = TRUE],
            task.number, "INITIALIZING", "reason"),
        task.rest, k)

\* Mutant: the catch block of refreshClient returns without fullRestart.
refreshClientRejected_NoRestart(w, task, k) ==
    performHealthCheck([w EXCEPT !.tasks = @ \ {task}], task.rest, k)

\* refreshClient after initialize() rejected: fullRestart.
refreshClientRejected(w, task, k) ==
    fullRestart([w EXCEPT !.tasks = @ \ {task}], task, k)

\* reconnectWebSocket(number) up to `await client.pupPage.reload(...)`.
reconnectWebSocket(w, task, k) ==
    IF \/ w.clients[task.number] = NoSession
       \/ w.sessions[w.clients[task.number]].page = "none"
    THEN performHealthCheck(w, task.rest, k)
    ELSE [w EXCEPT !.tasks = @ \cup
            {[task EXCEPT !.pc = "reconnectWebSocket",
                          !.sid = w.clients[task.number]]}]

\* reconnectWebSocket after reload resolved.
reconnectWebSocketResolved(w, task, k) ==
    performHealthCheck(
        StateManagerSetState([w EXCEPT !.tasks = @ \ {task}],
                             task.number, "RECONNECTING", "reason"),
        task.rest, k)

\* reconnectWebSocket after reload rejected: fullRestart.
reconnectWebSocketRejected(w, task, k) ==
    fullRestart([w EXCEPT !.tasks = @ \ {task}], task, k)

\* The orchestrator and the watchdog after construction (no session
\* directory on disk, so loadExistingClients adds nothing).
NoMetrics == [none |-> TRUE]

InitOrchestrator ==
    /\ clients = [c \in Clients |-> NoSession]
    /\ sessions = [i \in SessionIds |-> NoSess]
    /\ clientReadyState = [c \in Clients |-> FALSE]
    /\ retryAttempts = [c \in Clients |-> 0]
    /\ tasks = {}
    /\ graceTimers = {}
    /\ healthChecks = [c \in Clients |-> Absent]
    /\ metrics = NoMetrics
    /\ removed = [c \in Clients |-> "no"]

\* API calls, session events and watchdog ticks of a behaviour.
MaxStimuli == 3

InitWA == InitOrchestrator /\ stimuli = MaxStimuli

-----------------------------------------------------------------------------
(* MediaQueue (src/unnamed/part_003, utils/mediaQueue.js)                  *)
(*                                                                         *)
(* The queue Map is a sequence of jobs in insertion order, a job is its    *)
(* messageId, priority, attempts and enqueuedAt (message, clientId and     *)
(* type only feed the download, whose outcome is an input here).           *)
(* Times are relative to Now, as elsewhere.  A processedAt is kept up to   *)
(* the retention of cleanup; an enqueuedAt, which the code only compares   *)
(* with other enqueuedAt, is kept as its rank among the jobs: 0 for this   *)
(* very millisecond, -1 for the latest earlier one, and so on.             *)

\* Message ids of the model.
MessageSeq == <<"m1", "m2">>
MessageIds == {MessageSeq[i] : i \in 1..Len(MessageSeq)}

\* `@param {number} priority - Prioridad (0=alta, 1=normal, 2=baja)`
Priorities == {0, 1, 2}

maxWorkers == 3
mediaRetryAttempts == 2
jobTimeout == 30000

\* cleanup keeps the entries processed within the last hour.
retention == 3600000

\* Tries of attemptDownloadMedia.
downloadRetries == 3

WorkerIds == 0..(maxWorkers - 1)

\* No worker id: the error entry of processJob has no workerId field.
NoWorker == -1

NoJob == [none |-> TRUE]

MQ == [queue |-> queue, processing |-> processing, completed |-> completed,
       workers |-> workers]

\* The enqueuedAt of the jobs queued or in progress.
EnqueuedAts(mq) ==
    {mq.queue[i].enqueuedAt : i \in 1..Len(mq.queue)}
        \cup {mq.workers[w].job.enqueuedAt : w \in {x \in WorkerIds : mq.workers[x] # NoJob}}

\* The rank of the time e among the times `all` and Now.
RankOf(e, all) == 0 - Cardinality({u \in all \cup {Now} : u > e})

RankJob(job, all) == [job EXCEPT !.enqueuedAt = RankOf(@, all)]

\* The same queue, with each enqueuedAt as its rank.
RankMQ(mq) ==
    [mq EXCEPT !.queue = [i \in 1..Len(mq.queue) |-> RankJob(mq.queue[i], EnqueuedAts(mq))],
               !.workers = [w \in WorkerIds |->
                    IF mq.workers[w] = NoJob THEN NoJob
                    ELSE [mq.workers[w] EXCEPT !.job = RankJob(@, EnqueuedAts(mq))]]]

\* The queue d milliseconds later.
ShiftMQ(mq, d) ==
    RankMQ([mq EXCEPT
        !.queue = [i \in 1..Len(mq.queue) |-> [mq.queue[i] EXCEPT !.enqueuedAt = @ - d]],
        !.workers = [w \in WorkerIds |->
            IF mq.workers[w] = NoJob THEN NoJob
            ELSE [mq.workers[w] EXCEPT !.job.enqueuedAt = @ - d, !.startedAt = @ - d]],
        !.completed = [m \in MessageIds |->
            IF mq.completed[m] = Absent THEN Absent
            ELSE [mq.completed[m] EXCEPT
                    !.processedAt = ShiftTimeWithin(@, d, retention + 1)]]])

QueueHas(mq, messageId) == \E i \in 1..Len(mq.queue) : mq.queue[i].messageId = messageId

QueueDelete(q, messageId) == SelectSeq(q, LAMBDA j : j.messageId # messageId)

\* The status enqueue returns for a messageId it already knows.
EnqueueStatus(mq, messageId) ==
    IF mq.completed[messageId] # Absent THEN "completed"
    ELSE IF QueueHas(mq, messageId) \/ messageId \in mq.processing THEN "processing"
    ELSE "enqueued"

\* enqueue without the check of the processing set.
enqueue_NoProcessingCheck(mq, messageId, priority, t) ==
    IF mq.completed[messageId] # Absent \/ QueueHas(mq, messageId)
    THEN mq
    ELSE [mq EXCEPT !.queue = Append(@, [messageId |-> messageId, priority |-> priority,
                                         attempts |-> 0, enqueuedAt |-> t])]

enqueue(mq, messageId, priority, t) ==
    IF EnqueueStatus(mq, messageId) # "enqueued"
    THEN mq
    ELSE [mq EXCEPT !.queue = Append(@, [messageId |-> messageId, priority |-> priority,
                                         attempts |-> 0, enqueuedAt |-> t])]

\* A comparator that looks at enqueuedAt only.
JobBefore_FifoOnly(a, b) == a.enqueuedAt < b.enqueuedAt

\* The comparator of the sorts: a negative result, a before b.
JobBefore(a, b) ==
    IF a.priority # b.priority
    THEN a.priority < b.priority
    ELSE a.enqueuedAt < b.enqueuedAt

\* Array.prototype.sort with the comparator (a stable sort): job inserted
\* into a sorted sequence behind the jobs that are not after it.
RECURSIVE InsertJob(_, _)
InsertJob(sorted, job) ==
    IF sorted = << >> THEN <<job>>
    ELSE IF JobBefore(job, Head(sorted))
         THEN <<job>> \o sorted
         ELSE <<Head(sorted)>> \o InsertJob(Tail(sorted), job)

RECURSIVE SortJobs(_)
SortJobs(q) ==
    IF q = << >> THEN << >>
    ELSE InsertJob(SortJobs(SubSeq(q, 1, Len(q) - 1)), q[Len(q)])

\* The job getNextJob returns (null: NoJob).
NextJob(mq) == IF mq.queue = << >> THEN NoJob ELSE SortJobs(mq.queue)[1]

getNextJob(mq) ==
    IF mq.queue = << >>
    THEN mq
    ELSE [mq EXCEPT !.queue = QueueDelete(@, NextJob(mq).messageId),
                    !.processing = @ \cup {NextJob(mq).messageId}]

\* 1-based position in the sorted queue, 0 when not queued.
getQueuePosition(mq, messageId) ==
    LET jobs == SortJobs(mq.queue)
        found == {i \in 1..Len(jobs) : jobs[i].messageId = messageId}
    IN  IF found = {} THEN 0 ELSE CHOOSE i \in found : TRUE

MediaQueue_getStatus(mq, messageId) ==
    IF mq.completed[messageId] # Absent
    THEN [status |-> "completed", data |-> mq.completed[messageId]]
    ELSE IF messageId \in mq.processing
    THEN [status |-> "processing"]
    ELSE IF QueueHas(mq, messageId)
    THEN [status |-> "queued", position |-> getQueuePosition(mq, messageId)]
    ELSE [status |-> "not_found"]

\* What message.downloadMedia() does at one try.
DownloadResults == {"media", "empty", "throws"}

\* attemptDownloadMedia: the first try that yields media, within `retries`
\* tries; an exception of a try is swallowed.  "media" or "null".
RECURSIVE attemptDownloadMedia(_, _)
attemptDownloadMedia(tries, i) ==
    IF i > downloadRetries THEN "null"
    ELSE IF tries[i] = "media" THEN "media"
    ELSE attemptDownloadMedia(tries, i + 1)

\* downloadAndProcessMedia: "null" without media, "throws" when the media
\* cannot be turned into mediaData (saveTempMedia rejects), else "mediaData".
downloadAndProcessMedia(tries, saved) ==
    IF attemptDownloadMedia(tries, 1) = "null" THEN "null"
    ELSE IF ~saved THEN "throws"
    ELSE "mediaData"

\* processJob after the race of the download and the timeout has settled
\* with `settled` ("mediaData", "null", "throws" or "timeout").
processJobSettled(mq, job, workerId, settled, t) ==
    LET done == [mq EXCEPT !.processing = @ \ {job.messageId}]
    IN  IF settled = "mediaData"
        THEN [done EXCEPT !.completed[job.messageId] =
                [error |-> FALSE, processedAt |-> t, workerId |-> workerId]]
        ELSE IF settled = "null"
        THEN done
        ELSE IF job.attempts + 1 < mediaRetryAttempts
        THEN [done EXCEPT !.queue = Append(@, [job EXCEPT !.attempts = @ + 1])]
        ELSE [done EXCEPT !.completed[job.messageId] =
                [error |-> TRUE, processedAt |-> t, workerId |-> NoWorker]]

\* Mutant: `data.processedAt <= oneHourAgo`.
cleanup_AtOneHour(mq, t) ==
    [mq EXCEPT !.completed =
        [m \in MessageIds |->
            IF mq.completed[m] # Absent /\ mq.completed[m].processedAt <= t - retention
            THEN Absent
            ELSE mq.completed[m]]]

\* cleanup: the entries processed more than an hour ago are deleted.
cleanup(mq, t) ==
    [mq EXCEPT !.completed =
        [m \in MessageIds |->
            IF mq.completed[m] # Absent /\ mq.completed[m].processedAt < t - retention
            THEN Absent
            ELSE mq.completed[m]]]

NoRun == [live |-> FALSE, runs |-> 0, failures |-> 0, abandoned |-> 0]

InitMQ ==
    /\ queue = << >>
    /\ processing = {}
    /\ completed = [m \in MessageIds |-> Absent]
    /\ workers = [w \in WorkerIds |-> NoJob]
    /\ enqueues = 0
    /\ mediaJobs = [m \in MessageIds |-> NoRun]
    /\ smartTasks = {}
    /\ messageTypes = [m \in MessageIds |-> None]
    /\ smartCalls = 0

-----------------------------------------------------------------------------
(* ChatCacheManager (src/src/utils/chatCache.js)                           *)
(*                                                                         *)
(* A cached chat or group is a record of the fields the code has set on    *)
(* the object, so that a field never written is undefined: not in the      *)
(* DOMAIN.  The fields kept are isGroup, unreadCount and timestamp, and    *)
(* for a group also metadata; name, lastMessage, profilePicUrl and the     *)
(* participants are written and never read by the cache.  A chat of the    *)
(* library is a group chat exactly when its id is in the g.us server.      *)

Individuals == {"u1@c.us"}
Groups == {"g1@g.us"}
StatusBroadcast == "status@broadcast"
ChatIds == Individuals \cup Groups \cup {StatusBroadcast}

\* chatId.endsWith('@g.us')
EndsWithGUs(chatId) == chatId \in Groups

CC == [chatCache |-> chatCache, unreadChats |-> unreadChats, groupCache |-> groupCache,
       isLoaded |-> isLoaded, groupsLoaded |-> groupsLoaded]

\* Map.get / Map.has of a map of chats.
Has(map, id) == map # Absent /\ map[id] # Absent

\* obj.field, with `dflt` where JavaScript yields undefined.
Field(obj, field, dflt) == IF field \in DOMAIN obj THEN obj[field] ELSE dflt

\* { ...a, ...b } and Object.assign(a, b)
Assign(a, b) ==
    [k \in DOMAIN a \cup DOMAIN b |-> IF k \in DOMAIN b THEN b[k] ELSE a[k]]

\* chat.unreadCount || 0
UnreadCountOf(chat) == Field(chat, "unreadCount", 0)

EmptyMap == [id \in ChatIds |-> Absent]

\* The chats of a snapshot that initializeCache keeps.
Indexed(chats) == {id \in DOMAIN chats : id # StatusBroadcast}

\* The maps and flags initializeCache writes for a snapshot.
LoadCache(cc, clientNumber, chats) ==
    [cc EXCEPT
        !.chatCache[clientNumber] = [id \in ChatIds |->
            IF id \in Indexed(chats)
            THEN [isGroup |-> chats[id].isGroup, unreadCount |-> chats[id].unreadCount,
                  timestamp |-> chats[id].timestamp]
            ELSE Absent],
        !.unreadChats[clientNumber] =
            [ids |-> {id \in Indexed(chats) : chats[id].unreadCount > 0}],
        !.groupCache[clientNumber] = [id \in ChatIds |->
            IF id \in Indexed(chats) /\ chats[id].isGroup
            THEN [isGroup |-> chats[id].isGroup, unreadCount |-> chats[id].unreadCount,
                  timestamp |-> chats[id].timestamp, metadata |-> "null"]
            ELSE Absent],
        !.isLoaded[clientNumber] = TRUE,
        !.groupsLoaded[clientNumber] = TRUE]

\* initializeCache that does not filter the status pseudo-chat out.
initializeCache_KeepStatus(cc, clientNumber, chats) ==
    IF cc.isLoaded[clientNumber] THEN cc
    ELSE [LoadCache(cc, clientNumber, chats) EXCEPT
            !.chatCache[clientNumber] = [id \in ChatIds |->
                IF id \in DOMAIN chats
                THEN [isGroup |-> chats[id].isGroup, unreadCount |-> chats[id].unreadCount,
                      timestamp |-> chats[id].timestamp]
                ELSE Absent]]

\* initializeCache that loads again when the cache is loaded.
initializeCache_Reload(cc, clientNumber, chats) == LoadCache(cc, clientNumber, chats)

initializeCache(cc, clientNumber, chats) ==
    IF cc.isLoaded[clientNumber]
    THEN cc
    ELSE LoadCache(cc, clientNumber, chats)

\* The ids of the groups getAllGroups returns.
getAllGroups(cc, clientNumber) ==
    IF cc.groupCache[clientNumber] = Absent THEN {}
    ELSE {id \in ChatIds : cc.groupCache[clientNumber][id] # Absent}

updateGroupMetadata(cc, clientNumber, groupId) ==
    IF ~Has(cc.groupCache[clientNumber], groupId) THEN cc
    ELSE [cc EXCEPT !.groupCache[clientNumber][groupId] = Assign(@, [metadata |-> "set"])]

\* addGroup: t1 and t2 are the Date.now() of the group and of the chat entry.
addGroup(cc, clientNumber, groupId, t1, t2) ==
    IF cc.groupCache[clientNumber] = Absent \/ cc.chatCache[clientNumber] = Absent
    THEN cc
    ELSE [cc EXCEPT
            !.groupCache[clientNumber][groupId] =
                [isGroup |-> TRUE, unreadCount |-> 0, timestamp |-> t1, metadata |-> "null"],
            !.chatCache[clientNumber][groupId] =
                [isGroup |-> TRUE, unreadCount |-> 0, timestamp |-> t2]]

removeGroup(cc, clientNumber, groupId) ==
    [cc EXCEPT
        !.groupCache[clientNumber] = IF @ = Absent THEN @ ELSE [@ EXCEPT ![groupId] = Absent],
        !.chatCache[clientNumber] = IF @ = Absent THEN @ ELSE [@ EXCEPT ![groupId] = Absent]]

areGroupsLoaded(cc, clientNumber) == cc.groupsLoaded[clientNumber]

\* updateChat: `updates` is a record of the fields passed.
updateChat(cc, clientNumber, chatId, updates) ==
    IF cc.chatCache[clientNumber] = Absent THEN cc
    ELSE LET existing == IF Has(cc.chatCache[clientNumber], chatId)
                         THEN cc.chatCache[clientNumber][chatId]
                         ELSE << >>
             updated == Assign(existing, updates)
         IN  [cc EXCEPT
                !.chatCache[clientNumber][chatId] = updated,
                !.groupCache[clientNumber] =
                    IF Field(updated, "isGroup", FALSE) /\ Has(@, chatId)
                    THEN [@ EXCEPT ![chatId] = Assign(@, updates)]
                    ELSE @]

\* markAsRead that leaves the entry of the group sub-index alone.
markAsRead_NoGroupMirror(cc, clientNumber, chatId, t) ==
    IF cc.chatCache[clientNumber] = Absent \/ cc.unreadChats[clientNumber] = Absent
    THEN cc
    ELSE [cc EXCEPT
            !.chatCache[clientNumber] =
                IF Has(@, chatId)
                THEN [@ EXCEPT ![chatId] = Assign(@, [unreadCount |-> 0, timestamp |-> t])]
                ELSE @,
            !.unreadChats[clientNumber].ids = @ \ {chatId}]

\* The write of markAsUnread and markAsRead to the chat and, for a group,
\* to its entry of the group sub-index.
SetUnread(cc, clientNumber, chatId, count, t) ==
    IF ~Has(cc.chatCache[clientNumber], chatId) THEN cc
    ELSE [cc EXCEPT
            !.chatCache[clientNumber][chatId] =
                Assign(@, [unreadCount |-> count, timestamp |-> t]),
            !.groupCache[clientNumber] =
                IF /\ Field(cc.chatCache[clientNumber][chatId], "isGroup", FALSE)
                   /\ Has(@, chatId)
                THEN [@ EXCEPT ![chatId] = Assign(@, [unreadCount |-> count, timestamp |-> t])]
                ELSE @]

markAsUnread(cc, clientNumber, chatId, incrementBy, t) ==
    IF cc.chatCache[clientNumber] = Absent \/ cc.unreadChats[clientNumber] = Absent
    THEN cc
    ELSE [SetUnread(cc, clientNumber, chatId,
                    IF Has(cc.chatCache[clientNumber], chatId)
                    THEN UnreadCountOf(cc.chatCache[clientNumber][chatId]) + incrementBy
                    ELSE 0, t)
            EXCEPT !.unreadChats[clientNumber].ids = @ \cup {chatId}]

markAsRead(cc, clientNumber, chatId, t) ==
    IF cc.chatCache[clientNumber] = Absent \/ cc.unreadChats[clientNumber] = Absent
    THEN cc
    ELSE [SetUnread(cc, clientNumber, chatId, 0, t)
            EXCEPT !.unreadChats[clientNumber].ids = @ \ {chatId}]

\* The ids of the chats getUnreadChats returns.
getUnreadChats(cc, clientNumber) ==
    IF cc.chatCache[clientNumber] = Absent \/ cc.unreadChats[clientNumber] = Absent
    THEN {}
    ELSE {id \in cc.unreadChats[clientNumber].ids : cc.chatCache[clientNumber][id] # Absent}

\* The ids of the chats getAllChats returns.
getAllChats(cc, clientNumber) ==
    IF cc.chatCache[clientNumber] = Absent THEN {}
    ELSE {id \in ChatIds : cc.chatCache[clientNumber][id] # Absent}

isCacheReady(cc, clientNumber) == cc.isLoaded[clientNumber]

clearCache(cc, clientNumber) ==
    [cc EXCEPT !.chatCache[clientNumber] = Absent,
               !.unreadChats[clientNumber] = Absent,
               !.groupCache[clientNumber] = Absent,
               !.isLoaded[clientNumber] = FALSE,
               !.groupsLoaded[clientNumber] = FALSE]

InitCC ==
    /\ chatCache = [c \in Clients |-> Absent]
    /\ unreadChats = [c \in Clients |-> Absent]
    /\ groupCache = [c \in Clients |-> Absent]
    /\ isLoaded = [c \in Clients |-> FALSE]
    /\ groupsLoaded = [c \in Clients |-> FALSE]
    /\ cacheInitScheduled = [c \in Clients |-> FALSE]
    /\ cacheTasks = {}
    /\ cacheClock = 0
    /\ cacheOps = 0
    /\ loads = [c \in Clients |-> 0]

-----------------------------------------------------------------------------
(* SpecStore: the state store called directly, with arguments from a script *)

\* Arguments of a scripted call: every state with the default metadata, and
\* the failure states also with a reason, as the call sites pass them.
ScriptEntries ==
    [state : CLIENT_STATES, metadata : {"none"}]
        \cup [state : {"ERROR", "ZOMBIE"}, metadata : {"reason"}]

Scripts ==
    UNION {[1..n -> ScriptEntries] : n \in ScriptLens}

NoEvent == [op |-> "none"]

InitStore ==
    /\ states = [c \in Clients |-> Absent]
    /\ stateHistory = [c \in Clients |-> << >>]
    /\ event = NoEvent
    /\ recorded = [c \in Clients |-> << >>]
    /\ script \in Scripts
    /\ reconnectAttempts = [c \in Clients |-> 0]
    /\ reconnectTimers = [c \in Clients |-> NoTimer]
    /\ lastReconnectTime = [c \in Clients |-> NoTime]
    /\ armed = {}
    /\ inflight = {}
    /\ InitWA
    /\ InitMQ
    /\ InitCC

\* The arguments of the next scripted setState call of client c.
NextArgs(c) == script[(Len(recorded[c]) % Len(script)) + 1]

\* One setState call, a millisecond after the previous one, so that the
\* records of the history are told apart by their timestamps.
StoreSetState(c) ==
    /\ Len(recorded[c]) < MaxRecorded
    /\ LET a  == NextArgs(c)
           sc == StateChange(Store, c, a.state, a.metadata, Now)
       IN  /\ SetStore(setState(ShiftStore(Store, 1), c, a.state, a.metadata, Now))
           /\ event' = [op |-> "setState", number |-> c, value |-> sc]
           /\ recorded' = [recorded EXCEPT ![c] = Append(ShiftHistory(@, 1), sc)]
    /\ UNCHANGED <<script, rmVars, waVars, mediaVars, cacheVars>>

StoreClearState(c) ==
    /\ SetStore(clearState(Store, c))
    /\ event' = [op |-> "clearState", number |-> c]
    /\ recorded' = [recorded EXCEPT ![c] = << >>]
    /\ UNCHANGED <<script, rmVars, waVars, mediaVars, cacheVars>>

NextStore ==
    \E c \in Clients : StoreSetState(c) \/ StoreClearState(c)

SpecStore == InitStore /\ [][NextStore]_vars

-----------------------------------------------------------------------------
(* SpecRecon: the reconnection manager called by any caller, with a        *)
(* callback that resolves or rejects at any time                           *)

InitRecon ==
    /\ states = [c \in Clients |-> Absent]
    /\ stateHistory = [c \in Clients |-> << >>]
    /\ event = NoEvent
    /\ recorded = [c \in Clients |-> << >>]
    /\ script = << >>
    /\ reconnectAttempts = [c \in Clients |-> 0]
    /\ reconnectTimers = [c \in Clients |-> NoTimer]
    /\ lastReconnectTime = [c \in Clients |-> NoTime]
    /\ armed = {}
    /\ inflight = {}
    /\ InitWA
    /\ InitMQ
    /\ InitCC

\* The instants ahead at which a comparison of the manager changes its
\* outcome: a pending timer becomes due, the spacing guard of a client opens.
ReconInstants ==
    {t.due : t \in {u \in armed : u.due > Now}}
        \cup {lastReconnectTime[c] + minSpacing :
                c \in {x \in Clients : /\ Truthy(lastReconnectTime[x])
                                       /\ lastReconnectTime[x] + minSpacing > Now}}

\* Time passes up to one of these instants.
ReconTick ==
    /\ \E d \in ReconInstants : SetRM(ShiftRM(RM, d - Now))
    /\ event' = [op |-> "tick"]
    /\ UNCHANGED <<storeVars, states, stateHistory, inflight, waVars, mediaVars, cacheVars>>

\* A caller invokes scheduleReconnection(c, fn).
ReconSchedule(c) ==
    \E k \in Randoms :
        /\ HasFreshTimerId(clearTimer(RM, c), inflight)
        /\ SetRM(scheduleReconnection(RM, c, "fn", k, Now, inflight))
        /\ event' = [op |-> "scheduleReconnection", number |-> c,
                     value |-> ScheduleResult(RM, c, k, Now)]
        /\ UNCHANGED <<storeVars, states, stateHistory, inflight, waVars, mediaVars, cacheVars>>

\* A caller invokes resetAttempts(c).
ReconReset(c) ==
    /\ SetRM(resetAttempts(RM, c))
    /\ event' = [op |-> "resetAttempts", number |-> c]
    /\ UNCHANGED <<storeVars, states, stateHistory, inflight, waVars, mediaVars, cacheVars>>

\* A pending timer fires once its delay has elapsed.
TimerFire(timer) ==
    /\ timer \in armed
    /\ Now >= timer.due
    /\ Cardinality({f \in inflight : f.number = timer.number}) < MaxInflight
    /\ SetRM(timerFired(RM, timer, Now))
    /\ inflight' = inflight \cup
            {[id |-> timer.id, number |-> timer.number, callback |-> timer.callback]}
    /\ event' = [op |-> "timerFired", number |-> timer.number, id |-> timer.id]

ReconTimerFire ==
    /\ \E timer \in armed : TimerFire(timer)
    /\ UNCHANGED <<storeVars, states, stateHistory, waVars, mediaVars, cacheVars>>

\* The callback of a fired timer resolves.
ReconCallbackResolves(f) ==
    /\ f.callback = "fn"
    /\ SetRM(callbackResolved(RM, f.number))
    /\ inflight' = inflight \ {f}
    /\ event' = [op |-> "callbackResolved", number |-> f.number, id |-> f.id]
    /\ UNCHANGED <<storeVars, states, stateHistory, waVars, mediaVars, cacheVars>>

\* The callback of a fired timer rejects.
ReconCallbackRejects(f) ==
    /\ f.callback = "fn"
    /\ \E k \in Randoms :
        SetRM(callbackRejected(RM, f.number, f.callback, k, Now, inflight \ {f}))
    /\ inflight' = inflight \ {f}
    /\ event' = [op |-> "callbackRejected", number |-> f.number, id |-> f.id]
    /\ UNCHANGED <<storeVars, states, stateHistory, waVars, mediaVars, cacheVars>>

NextRecon ==
    \/ ReconTick
    \/ \E c \in Clients : ReconSchedule(c)
    \/ \E c \in Clients : ReconReset(c)
    \/ ReconTimerFire
    \/ \E f \in inflight : ReconCallbackResolves(f)
    \/ \E f \in inflight : ReconCallbackRejects(f)

SpecRecon == InitRecon /\ [][NextRecon]_vars

-----------------------------------------------------------------------------
(* Spec: the orchestrator with its sessions, the watchdog, the state store *)
(* and the reconnection manager                                            *)

\* performHealthCheck runs in progress at the same time.
MaxHealthChecks == 1

\* Async methods of the orchestrator suspended at an await at the same time
\* (a health check run of the watchdog is counted by MaxHealthChecks).
MaxTasks == 1

\* Math.random() of calculateDelay in Spec: the middle value (no jitter).
SpecRandoms == {RandomSteps \div 2}

WatchdogPcs == {"evaluate", "fullRestart", "refreshClient", "reconnectWebSocket"}

WatchdogTasks(w) == {t \in w.tasks : t.kind = "checkClientHealth"}

\* Client objects nothing refers to any more and that can do nothing (destroyed,
\* or never launched and no initialize() pending) are dropped.
Collect(w) ==
    [w EXCEPT !.sessions =
        [i \in SessionIds |->
            IF \/ \E c \in Clients : w.clients[c] = i
               \/ \E t \in w.tasks : t.sid = i \/ t.refreshed = i
               \/ w.sessions[i].live /\ w.sessions[i].browser # "none"
            THEN w.sessions[i]
            ELSE NoSess]]

\* The program d milliseconds later.
ShiftWorld(w, d) ==
    [WithRM(WithStore(w, ShiftStore(StoreOf(w), d)), ShiftRM(RMOf(w), d))
        EXCEPT !.graceTimers = {[t EXCEPT !.due = ShiftDue(@, d)] : t \in w.graceTimers},
               !.tasks = {[t EXCEPT !.due = ShiftDue(@, d)] : t \in w.tasks}]

SetWorld(w) ==
    /\ Cardinality(w.tasks \ WatchdogTasks(w)) <= MaxTasks
    /\ Cardinality(WatchdogTasks(w)) <= MaxHealthChecks
    /\ SetStore(StoreOf(w))
    /\ SetRM(RMOf(w))
    /\ inflight' = w.inflight
    /\ clients' = w.clients
    /\ sessions' = Collect(w).sessions
    /\ clientReadyState' = w.clientReadyState
    /\ retryAttempts' = w.retryAttempts
    /\ tasks' = w.tasks
    /\ graceTimers' = w.graceTimers
    /\ healthChecks' = w.healthChecks
    /\ metrics' = w.metrics

\* Observer of removals: "removed" once a removeClient of the client has
\* returned, "ticking" while a health check run started after that is in
\* progress, "ticked" once such a run has ended, "no" when the client is
\* registered (again).
Observe(w, returned, tickStarted) ==
    removed' =
        [c \in Clients |->
            IF w.clients[c] # NoSession THEN "no"
            ELSE IF c \in returned THEN "removed"
            ELSE IF \/ removed[c] = "ticking"
                    \/ removed[c] = "removed" /\ tickStarted
                 THEN IF WatchdogTasks(w) = {} THEN "ticked" ELSE "ticking"
                 ELSE removed[c]]

Init ==
    /\ states = [c \in Clients |-> Absent]
    /\ stateHistory = [c \in Clients |-> << >>]
    /\ event = NoEvent
    /\ recorded = [c \in Clients |-> << >>]
    /\ script = << >>
    /\ reconnectAttempts = [c \in Clients |-> 0]
    /\ reconnectTimers = [c \in Clients |-> NoTimer]
    /\ lastReconnectTime = [c \in Clients |-> NoTime]
    /\ armed = {}
    /\ inflight = {}
    /\ InitWA
    /\ InitMQ
    /\ InitCC

\* Time.  A step of Spec is a handler running at some instant, and time
\* passes between steps: a step that reads the clock (the watchdog's checks,
\* canReconnect) starts d ms after the previous one, with d = 0 or one of the
\* instants ahead at which a comparison changes its outcome (the spacing
\* guard of a client opens, the age of a state passes the watchdog threshold
\* of that state), and never later than the first pending timer, which fires
\* when it is due.
AgeLimit(state) ==
    IF state = "WAITING_QR" THEN maxQrAge
    ELSE IF state = "INITIALIZING" THEN maxInitializationTime
    ELSE maxStateAge

Instants ==
    {lastReconnectTime[c] + minSpacing :
        c \in {x \in Clients : /\ Truthy(lastReconnectTime[x])
                               /\ lastReconnectTime[x] + minSpacing > Now}}
        \cup {states[c].timestamp + AgeLimit(states[c].state) + 1 :
                c \in {x \in Clients :
                        /\ states[x] # Absent
                        /\ states[x].state \in {"WAITING_QR", "INITIALIZING",
                                "AUTHENTICATING", "RECONNECTING", "DISCONNECTED"}
                        /\ states[x].timestamp + AgeLimit(states[x].state) + 1 > Now}}

\* The pending timers: those of the scheduler, the 30 s timers of
\* handleDisconnection and the 5 s timers of the probes.
PendingTimers ==
    armed \cup graceTimers \cup {t \in tasks : t.pc = "evaluate"}

Elapses ==
    {Now} \cup {i \in Instants : \A t \in PendingTimers : i <= t.due}

\* The program d ms after the current state.
After(d) == ShiftWorld(World, d - Now)

\* An API call, a session event or a watchdog tick, within the budget.
Stimulus ==
    /\ stimuli > 0
    /\ stimuli' = stimuli - 1
    /\ UNCHANGED <<storeVars, mediaVars, cacheVars>>

Internal == UNCHANGED <<storeVars, stimuli, mediaVars, cacheVars>>

\* The service layer calls addClient(c).
ApiAddClient(c) ==
    /\ Stimulus
    /\ SetWorld(addClient(World, c, NoTimer))
    /\ Observe(addClient(World, c, NoTimer), {}, FALSE)
    /\ event' = [op |-> "addClient", number |-> c]

\* The service layer calls removeClient(c).
ApiRemoveClient(c) ==
    /\ Stimulus
    /\ clients[c] # NoSession
    /\ SetWorld(removeClient(World, c))
    /\ Observe(removeClient(World, c), {}, FALSE)
    /\ event' = [op |-> "removeClient", number |-> c]

\* forceReconnect(c) is called.
ApiForceReconnect(c) ==
    /\ Stimulus
    /\ HasFreshSession(World)
    /\ \E k \in SpecRandoms, d \in Elapses :
        /\ SetWorld(forceReconnect(After(d), c, k))
        /\ Observe(forceReconnect(After(d), c, k), {}, FALSE)
    /\ event' = [op |-> "forceReconnect", number |-> c]

SessionEvents ==
    {"qr", "authenticated", "ready", "auth_failure", "disconnected", "loading_screen"}

onEvent(w, sid, ev, k) ==
    LET number == w.sessions[sid].number
    IN  CASE ev = "qr"             -> onQr(w, number)
          [] ev = "authenticated"  -> onAuthenticated(w, number)
          [] ev = "ready"          -> onReady(w, sid)
          [] ev = "auth_failure"   -> onAuthFailure(w, number)
          [] ev = "disconnected"   -> handleDisconnection(w, number, k)
          [] ev = "loading_screen" -> onLoadingScreen(w, number)

\* A session whose browser runs emits an event.
SessionEmits(sid, ev) ==
    /\ Stimulus
    /\ sessions[sid].live
    /\ sessions[sid].browser = "connected"
    /\ \E k \in SpecRandoms,
          d \in IF ev = "disconnected" THEN Elapses ELSE {Now} :
        /\ SetWorld(onEvent(After(d), sid, ev, k))
        /\ Observe(onEvent(After(d), sid, ev, k), {}, FALSE)
    /\ event' = [op |-> ev, number |-> sessions[sid].number, sid |-> sid]

\* The browser of a session crashes or its window is closed.
BrowserDisconnects(sid) ==
    /\ Stimulus
    /\ sessions[sid].live
    /\ sessions[sid].browser = "connected"
    /\ SetWorld([World EXCEPT !.sessions[sid].browser = "disconnected"])
    /\ event' = [op |-> "browserDisconnected", number |-> sessions[sid].number,
                 sid |-> sid]
    /\ UNCHANGED removed

\* The page of a session stops answering.
PageHangs(sid) ==
    /\ Stimulus
    /\ sessions[sid].live
    /\ sessions[sid].browser = "connected"
    /\ sessions[sid].page = "ok"
    /\ SetWorld([World EXCEPT !.sessions[sid].page = "hung"])
    /\ event' = [op |-> "pageHung", number |-> sessions[sid].number, sid |-> sid]
    /\ UNCHANGED removed

\* The orders in which Array.from(clients.keys()) can list the clients.
KeyOrders ==
    LET registered == {c \in Clients : clients[c] # NoSession}
    IN  {s \in [1..Cardinality(registered) -> registered] :
            \A i, j \in 1..Cardinality(registered) : s[i] = s[j] => i = j}

\* The watchdog's interval fires: performHealthCheck().
WatchdogTick ==
    /\ Stimulus
    /\ Cardinality(WatchdogTasks(World)) < MaxHealthChecks
    /\ \E k \in SpecRandoms, keys \in KeyOrders, d \in Elapses :
        /\ SetWorld(performHealthCheck(After(d), keys, k))
        /\ Observe(performHealthCheck(After(d), keys, k), {}, TRUE)
    /\ event' = [op |-> "performHealthCheck"]

\* The callback a scheduler timer was armed with starts.
startCallback(w, timer, k) ==
    IF timer.callback = "recoverClient"
    THEN recoverClient(w, timer.number, timer.id, k)
    ELSE addClient(w, timer.number, timer.id)

\* The setTimeout callback of scheduleReconnection with `callback` started.
timerCallbackStarted(w, id, k) ==
    LET timer == CHOOSE t \in w.armed : t.id = id
        fired == [WithRM(w, timerFired(RMOf(w), timer, Now))
                    EXCEPT !.inflight = @ \cup
                        {[id |-> timer.id, number |-> timer.number,
                          callback |-> timer.callback]}]
    IN  startCallback(fired, timer, k)

\* The first pending timer is one of the reconnection manager: when it is
\* due it fires, lastReconnectTime is set and the callback runs up to its
\* first await.
ReconnectTimerFires(timer) ==
    /\ Internal
    /\ timer \in armed
    /\ \A t \in PendingTimers : timer.due <= t.due
    /\ Cardinality({f \in inflight : f.number = timer.number}) < MaxInflight
    /\ HasFreshSession(World)
    /\ \E k \in SpecRandoms :
        /\ SetWorld(timerCallbackStarted(After(timer.due), timer.id, k))
        /\ Observe(timerCallbackStarted(After(timer.due), timer.id, k), {}, FALSE)
    /\ event' = [op |-> "timerFired", number |-> timer.number, id |-> timer.id]

\* The first pending timer is a 30 s timer of handleDisconnection.
GraceTimerFires(timer) ==
    /\ Internal
    /\ timer \in graceTimers
    /\ \A t \in PendingTimers : timer.due <= t.due
    /\ \E k \in SpecRandoms :
        LET w == graceTimerFired(After(timer.due), [timer EXCEPT !.due = Now], k)
        IN  SetWorld(w) /\ Observe(w, {}, FALSE)
    /\ event' = [op |-> "graceTimerFired", number |-> timer.number]

\* A task resumes: w is the program after the step.
Resume(task, op, w, returned) ==
    /\ Internal
    /\ SetWorld(w)
    /\ Observe(w, returned, FALSE)
    /\ event' = [op |-> op, number |-> task.number, origin |-> task.origin,
                 sid |-> task.sid, refreshed |-> task.refreshed]

\* initialize() of a new session launches its browser and opens the page.
SessionLaunches(sid) ==
    /\ Internal
    /\ \E t \in tasks : t.pc = "initialize" /\ t.sid = sid
    /\ sessions[sid].live
    /\ sessions[sid].browser = "none"
    /\ SetWorld([World EXCEPT !.sessions[sid].browser = "connected",
                              !.sessions[sid].page = "ok"])
    /\ event' = [op |-> "launched", number |-> sessions[sid].number, sid |-> sid]
    /\ UNCHANGED removed

\* addClient: fs.mkdir resolved.
MkdirResolves(task) ==
    /\ task.pc = "mkdir"
    /\ HasFreshSession(World)
    /\ \E k \in SpecRandoms, d \in Elapses :
        Resume(task, "addClient.createClient", addClientCreate(After(d), task, k), {})

\* recoverClient / initiateReconnection: cleanupClient returned.
CleanupReturns(task) ==
    /\ task.pc = "cleanup"
    /\ HasFreshSession(World)
    /\ \E k \in SpecRandoms, d \in Elapses :
        IF task.kind = "recoverClient"
        THEN Resume(task, "recoverClient.createClient",
                    recoverClientCleaned(After(d), task, k), {})
        ELSE Resume(task, "initiateReconnection.schedule",
                    initiateReconnectionSchedule(After(d), task, k), {})

\* createClient: client.initialize() resolved (the browser runs).
InitializeResolves(task) ==
    /\ task.pc = "initialize"
    /\ sessions[task.sid].live
    /\ sessions[task.sid].browser = "connected"
    /\ Resume(task, "initializeResolved", initializeResolved(World, task), {})

\* createClient: client.initialize() rejected.
InitializeRejects(task) ==
    /\ task.pc = "initialize"
    /\ \E k \in SpecRandoms, d \in Elapses :
        Resume(task, "initializeRejected", initializeRejected(After(d), task, k), {})

\* handleAuthFailure: removeDirectory resolved.
AuthFailureCleaned(task) ==
    /\ task.kind = "handleAuthFailure"
    /\ \E k \in SpecRandoms, d \in Elapses :
        Resume(task, "handleAuthFailure.schedule",
               handleAuthFailureSchedule(After(d), task, k), {})

\* handleAuthFailure: removeDirectory rejected (caught and logged).
AuthFailureCaught(task) ==
    /\ task.kind = "handleAuthFailure"
    /\ Resume(task, "handleAuthFailure.caught",
              [World EXCEPT !.tasks = @ \ {task}], {})

\* removeClient: client.logout() resolved (the session has a page).
LogoutResolves(task) ==
    /\ task.pc = "logout"
    /\ sessions[task.sid].page # "none"
    /\ Resume(task, "removeClient.loggedOut", removeClientLoggedOut(World, task), {})

\* removeClient: removeDirectory resolved, removeClient returns.
RemoveClientReturns(task) ==
    /\ task.kind = "removeClient"
    /\ task.pc = "removeDirectory"
    /\ Resume(task, "removeClient.returned", removeClientSettled(World, task),
              {task.number})

\* removeClient: logout or removeDirectory rejected, removeClient throws.
RemoveClientThrows(task) ==
    /\ task.kind = "removeClient"
    /\ Resume(task, "removeClient.thrown", removeClientSettled(World, task), {})

\* checkBrowserResponsive: the race of evaluate and the 5 s timer settled, by
\* the timer when it is due and the page has not answered, by evaluate before
\* that.
EvaluateSettles(task) ==
    /\ task.pc = "evaluate"
    /\ \E k \in SpecRandoms,
          d \in IF probeResult(World, task)
                THEN Elapses
                ELSE IF sessions[task.sid].browser = "connected"
                     THEN {e \in {task.due} : \A t \in PendingTimers : e <= t.due}
                     ELSE Elapses :
        Resume(task, "checkClientHealth.checked",
               evaluateSettled(After(d), task, k), {})

\* fullRestart: cleanupClient returned.
FullRestartCleaned(task) ==
    /\ task.pc = "fullRestart"
    /\ \E k \in SpecRandoms, d \in Elapses :
        Resume(task, "fullRestart.schedule", fullRestartCleaned(After(d), task, k), {})

\* refreshClient: client.initialize() resolved / rejected.
RefreshResolves(task) ==
    /\ task.pc = "refreshClient"
    /\ \E k \in SpecRandoms :
        Resume(task, "refreshClient.resolved",
               refreshClientResolved(World, task, k), {})

RefreshRejects(task) ==
    /\ task.pc = "refreshClient"
    /\ \E k \in SpecRandoms, d \in Elapses :
        Resume(task, "refreshClient.rejected",
               refreshClientRejected(After(d), task, k), {})

\* reconnectWebSocket: pupPage.reload() resolved / rejected.
ReloadResolves(task) ==
    /\ task.pc = "reconnectWebSocket"
    /\ \E k \in SpecRandoms :
        Resume(task, "reconnectWebSocket.resolved",
               reconnectWebSocketResolved(World, task, k), {})

ReloadRejects(task) ==
    /\ task.pc = "reconnectWebSocket"
    /\ \E k \in SpecRandoms, d \in Elapses :
        Resume(task, "reconnectWebSocket.rejected",
               reconnectWebSocketRejected(After(d), task, k), {})

Next ==
    \/ \E c \in Clients : ApiAddClient(c)
    \/ \E c \in Clients : ApiRemoveClient(c)
    \/ \E c \in Clients : ApiForceReconnect(c)
    \/ \E sid \in SessionIds, ev \in SessionEvents : SessionEmits(sid, ev)
    \/ \E sid \in SessionIds : BrowserDisconnects(sid)
    \/ \E sid \in SessionIds : PageHangs(sid)
    \/ WatchdogTick
    \/ \E timer \in armed : ReconnectTimerFires(timer)
    \/ \E timer \in graceTimers : GraceTimerFires(timer)
    \/ \E sid \in SessionIds : SessionLaunches(sid)
    \/ \E task \in tasks :
        \/ MkdirResolves(task)
        \/ CleanupReturns(task)
        \/ InitializeResolves(task)
        \/ InitializeRejects(task)
        \/ AuthFailureCleaned(task)
        \/ AuthFailureCaught(task)
        \/ LogoutResolves(task)
        \/ RemoveClientReturns(task)
        \/ RemoveClientThrows(task)
        \/ EvaluateSettles(task)
        \/ FullRestartCleaned(task)
        \/ RefreshResolves(task)
        \/ RefreshRejects(task)
        \/ ReloadResolves(task)
        \/ ReloadRejects(task)

Spec == Init /\ [][Next]_vars

-----------------------------------------------------------------------------
(* SpecSession: one client from addClient on with the events of its        *)
(* session, the failures of its browser and the timers (those of the       *)
(* scheduler and the 30 s timers of handleDisconnection); no other API     *)
(* call and no watchdog, which leaves room for longer lives of a session.  *)

\* API calls and session events of a behaviour of SpecSession.
MaxSessionStimuli == 4

InitSession ==
    /\ states = [c \in Clients |-> Absent]
    /\ stateHistory = [c \in Clients |-> << >>]
    /\ event = NoEvent
    /\ recorded = [c \in Clients |-> << >>]
    /\ script = << >>
    /\ reconnectAttempts = [c \in Clients |-> 0]
    /\ reconnectTimers = [c \in Clients |-> NoTimer]
    /\ lastReconnectTime = [c \in Clients |-> NoTime]
    /\ armed = {}
    /\ inflight = {}
    /\ InitOrchestrator
    /\ stimuli = MaxSessionStimuli
    /\ InitMQ
    /\ InitCC

NextSession ==
    \/ \E c \in Clients : clients[c] = NoSession /\ tasks = {} /\ ApiAddClient(c)
    \/ \E sid \in SessionIds, ev \in SessionEvents : SessionEmits(sid, ev)
    \/ \E sid \in SessionIds : BrowserDisconnects(sid)
    \/ \E timer \in armed : ReconnectTimerFires(timer)
    \/ \E timer \in graceTimers : GraceTimerFires(timer)
    \/ \E sid \in SessionIds : SessionLaunches(sid)
    \/ \E task \in tasks :
        \/ MkdirResolves(task)
        \/ CleanupReturns(task)
        \/ InitializeResolves(task)
        \/ InitializeRejects(task)
        \/ AuthFailureCleaned(task)
        \/ AuthFailureCaught(task)

SpecSession == InitSession /\ [][NextSession]_vars

-----------------------------------------------------------------------------
(* SpecMedia: the media queue with its three workers, enqueue calls with   *)
(* any messageId and priority, downloads with any outcome, cleanup at any  *)
(* time                                                                    *)

\* enqueue calls SpecMedia makes.
MaxEnqueues == 2

SetMQ(mq) ==
    /\ queue' = RankMQ(mq).queue
    /\ processing' = mq.processing
    /\ completed' = mq.completed
    /\ workers' = RankMQ(mq).workers

InitMedia ==
    /\ states = [c \in Clients |-> Absent]
    /\ stateHistory = [c \in Clients |-> << >>]
    /\ event = NoEvent
    /\ recorded = [c \in Clients |-> << >>]
    /\ script = << >>
    /\ reconnectAttempts = [c \in Clients |-> 0]
    /\ reconnectTimers = [c \in Clients |-> NoTimer]
    /\ lastReconnectTime = [c \in Clients |-> NoTime]
    /\ armed = {}
    /\ inflight = {}
    /\ InitWA
    /\ InitMQ
    /\ InitCC

MediaFrame ==
    UNCHANGED <<states, stateHistory, storeVars, rmVars, waVars, cacheVars, smartVars>>

\* The message ids enqueue was called with so far, and the ids of a call:
\* one of those or one new id (new ids are taken in order).
SeenIds == {m \in MessageIds : mediaJobs[m] # NoRun}

CallIds ==
    SeenIds \cup IF Cardinality(SeenIds) < Len(MessageSeq)
                 THEN {MessageSeq[Cardinality(SeenIds) + 1]}
                 ELSE {}

\* enqueue(messageId, message, clientId, priority) is called.
MediaEnqueue(m, p) ==
    /\ enqueues < MaxEnqueues
    /\ m \in CallIds
    /\ enqueues' = enqueues + 1
    /\ SetMQ(enqueue(MQ, m, p, Now))
    /\ mediaJobs' = IF EnqueueStatus(MQ, m) = "enqueued"
                    THEN [mediaJobs EXCEPT ![m] = [@ EXCEPT !.live = TRUE, !.runs = 0,
                                                              !.failures = 0]]
                    ELSE mediaJobs
    /\ event' = [op |-> "enqueue", messageId |-> m, priority |-> p,
                 value |-> EnqueueStatus(MQ, m)]
    /\ MediaFrame

\* processJob up to the await of the race.
processJob(mq, w, job, t) ==
    [mq EXCEPT !.workers[w] = [job |-> job, startedAt |-> t]]

\* A worker at the top of its loop finds a job: getNextJob, then processJob
\* up to the await of the race.  The polling workers are interchangeable:
\* the one with the smallest id is the one whose poll comes first.
WorkerTakesJob(w) ==
    /\ workers[w] = NoJob
    /\ \A v \in WorkerIds : workers[v] = NoJob => w <= v
    /\ queue # << >>
    /\ SetMQ(processJob(getNextJob(MQ), w, NextJob(MQ), Now))
    /\ mediaJobs' = [mediaJobs EXCEPT ![NextJob(MQ).messageId].runs = @ + 1]
    /\ event' = [op |-> "getNextJob", worker |-> w, job |-> NextJob(MQ)]
    /\ UNCHANGED enqueues
    /\ MediaFrame

\* The timeouts of the jobs in progress.
JobTimeouts == {workers[w].startedAt + jobTimeout : w \in {x \in WorkerIds : workers[x] # NoJob}}

\* processJob of worker w resumes, d ms on, with what the race settled with.
JobSettles(w, settled, d) ==
    LET mq == ShiftMQ(MQ, d)
        job == mq.workers[w].job
    IN  /\ SetMQ([processJobSettled(mq, job, w, settled, Now) EXCEPT !.workers[w] = NoJob])
        /\ mediaJobs' = IF settled = "mediaData"
                        THEN mediaJobs
                        ELSE IF settled = "timeout"
                        THEN [mediaJobs EXCEPT ![job.messageId].failures = @ + 1,
                                               ![job.messageId].abandoned = @ + 1]
                        ELSE [mediaJobs EXCEPT ![job.messageId].failures = @ + 1]
        /\ event' = [op |-> "processJob", worker |-> w, messageId |-> job.messageId,
                     attempts |-> job.attempts, settled |-> settled]
        /\ UNCHANGED enqueues
        /\ MediaFrame

\* downloadAndProcessMedia settles before the 30 s timer.
DownloadSettles(w) ==
    /\ workers[w] # NoJob
    /\ \E settled \in {downloadAndProcessMedia(tries, saved) :
                        tries \in [1..downloadRetries -> DownloadResults],
                        saved \in BOOLEAN} :
        JobSettles(w, settled, 0)

\* The 30 s timer of processJob, the first one pending, fires when it is
\* due and rejects the race.
JobTimesOut(w) ==
    /\ workers[w] # NoJob
    /\ \A t \in JobTimeouts : workers[w].startedAt + jobTimeout <= t
    /\ JobSettles(w, "timeout", workers[w].startedAt + jobTimeout - Now)

\* The instants at which a run of cleanup can find the completed entries: now,
\* and for each entry the last millisecond of its retention and the first
\* one after it.
CleanupInstants ==
    {Now} \cup {t \in UNION {{completed[m].processedAt + retention,
                               completed[m].processedAt + retention + 1} :
                              m \in {x \in MessageIds : completed[x] # Absent}} :
                    t >= Now}

\* The downloadAndProcessMedia of m that lost the race against the timeout
\* settles at last; nobody awaits its promise.
AbandonedDownloadSettles(m) ==
    /\ mediaJobs[m].abandoned > 0
    /\ mediaJobs' = [mediaJobs EXCEPT ![m].abandoned = @ - 1]
    /\ event' = [op |-> "downloadAbandoned", messageId |-> m]
    /\ UNCHANGED <<queue, processing, completed, workers, enqueues>>
    /\ MediaFrame

\* The 30 min interval calls cleanup(), at one of these instants and before
\* the timeout of a job in progress.
MediaCleanup ==
    /\ \E t \in CleanupInstants :
        /\ \A due \in JobTimeouts : t <= due
        /\ SetMQ(cleanup(ShiftMQ(MQ, t - Now), Now))
        /\ mediaJobs' = [m \in MessageIds |->
                            IF /\ completed[m] # Absent
                               /\ cleanup(ShiftMQ(MQ, t - Now), Now).completed[m] = Absent
                            THEN [mediaJobs[m] EXCEPT !.live = FALSE]
                            ELSE mediaJobs[m]]
    /\ event' = [op |-> "cleanup"]
    /\ UNCHANGED enqueues
    /\ MediaFrame

\* A millisecond passes after an enqueue.
MediaTick ==
    /\ Now \in EnqueuedAts(MQ)
    /\ \A due \in JobTimeouts : Now + 1 <= due
    /\ SetMQ(ShiftMQ(MQ, 1))
    /\ event' = [op |-> "tick"]
    /\ UNCHANGED <<mediaJobs, enqueues>>
    /\ MediaFrame

NextMedia ==
    \/ \E m \in MessageIds, p \in Priorities : MediaEnqueue(m, p)
    \/ \E w \in WorkerIds : WorkerTakesJob(w)
    \/ \E w \in WorkerIds : DownloadSettles(w)
    \/ \E w \in WorkerIds : JobTimesOut(w)
    \/ \E m \in MessageIds : AbandonedDownloadSettles(m)
    \/ MediaCleanup
    \/ MediaTick

SpecMedia == InitMedia /\ [][NextMedia]_vars

\* The workers run and every download attempt terminates.
SpecMediaFair ==
    /\ SpecMedia
    /\ \A w \in WorkerIds : WF_vars(WorkerTakesJob(w))
    /\ \A w \in WorkerIds : WF_vars(DownloadSettles(w) \/ JobTimesOut(w))

-----------------------------------------------------------------------------
(* SpecSmart: WhatsAppService.handleMediaSmart (src/unnamed/part_004) in   *)
(* front of the media queue and its workers.  A call is suspended at the   *)
(* await of checkTempFileExists and at the await of the quick download;    *)
(* what the temp directory holds and how the quick download ends are       *)
(* inputs.  The 3 s of the quick timer are not measured against the 30 s   *)
(* of the jobs in progress.                                                *)

\* message.type of a message with media.
MediaTypes == {"sticker", "image", "ptt", "audio", "document", "video"}

\* `['sticker', 'image', 'ptt'].includes(type)`
quickTypes == {"sticker", "image", "ptt"}

\* `type === 'video' ? 2 : 1`
SmartPriority(type) == IF type = "video" THEN 2 ELSE 1

\* handleMediaSmart calls SpecSmart makes.
MaxSmartCalls == 2

\* How the race of attemptDownloadMedia(message, 1) and the 3 s timer ends.
QuickResults == {"media", "null", "throws", "timeout"}

SmartFrame == UNCHANGED <<states, stateHistory, storeVars, rmVars, waVars, cacheVars>>

\* The messages handleMediaSmart was called with so far, and the ids of a
\* call: one of those or one new id (new ids are taken in order).
SmartSeen == {m \in MessageIds : messageTypes[m] # None}

SmartCallIds ==
    SmartSeen \cup IF Cardinality(SmartSeen) < Len(MessageSeq)
                   THEN {MessageSeq[Cardinality(SmartSeen) + 1]}
                   ELSE {}

SmartTask(m, type, pc) == [messageId |-> m, type |-> type, pc |-> pc]

\* handleMediaSmart returns mediaStatus `value`, found by step `via`.
SmartReturns(task, via, value) ==
    event' = [op |-> "handleMediaSmart", messageId |-> task.messageId,
              type |-> task.type, via |-> via, from |-> task.pc, value |-> value]

\* Step 3 of handleMediaSmart: mediaQueue.enqueue, and the return.
handleMediaSmartEnqueue(task) ==
    /\ SetMQ(enqueue(MQ, task.messageId, SmartPriority(task.type), Now))
    /\ mediaJobs' = IF EnqueueStatus(MQ, task.messageId) = "enqueued"
                    THEN [mediaJobs EXCEPT ![task.messageId] =
                            [@ EXCEPT !.live = TRUE, !.runs = 0, !.failures = 0]]
                    ELSE mediaJobs
    /\ smartTasks' = smartTasks \ {task}
    /\ SmartReturns(task, "enqueue", EnqueueStatus(MQ, task.messageId))

\* handleMediaSmart(message, clientId, formattedMessage) is called: step 1,
\* up to the return of a completed entry or to the await of
\* checkTempFileExists.
SmartCalled(m, type) ==
    /\ smartCalls < MaxSmartCalls
    /\ m \in SmartCallIds
    /\ messageTypes[m] \in {None, type}
    /\ SmartTask(m, type, "checkTempFileExists") \notin smartTasks
    /\ smartCalls' = smartCalls + 1
    /\ messageTypes' = [messageTypes EXCEPT ![m] = type]
    /\ IF MediaQueue_getStatus(MQ, m).status = "completed"
       THEN /\ SmartReturns(SmartTask(m, type, "getStatus"), "completed",
                            IF completed[m].error THEN "error" ELSE "ready")
            /\ UNCHANGED smartTasks
       ELSE /\ event' = [op |-> "handleMediaSmart.called", messageId |-> m, type |-> type]
            /\ smartTasks' = smartTasks \cup {SmartTask(m, type, "checkTempFileExists")}
    /\ UNCHANGED <<queue, processing, completed, workers, enqueues, mediaJobs>>
    /\ SmartFrame

\* checkTempFileExists resolves: step 1.5, then step 2 up to the await of
\* the race, or step 3.
TempFileChecked(task, tempFileExists) ==
    /\ task.pc = "checkTempFileExists"
    /\ UNCHANGED <<messageTypes, smartCalls, enqueues>>
    /\ SmartFrame
    /\ IF tempFileExists
       THEN /\ SmartReturns(task, "tempFile", "ready")
            /\ smartTasks' = smartTasks \ {task}
            /\ UNCHANGED <<queue, processing, completed, workers, mediaJobs>>
       ELSE IF task.type \in quickTypes
       THEN /\ [task EXCEPT !.pc = "quickDownload"] \notin smartTasks
            /\ event' = [op |-> "handleMediaSmart.quick", messageId |-> task.messageId,
                         type |-> task.type]
            /\ smartTasks' = (smartTasks \ {task}) \cup {[task EXCEPT !.pc = "quickDownload"]}
            /\ UNCHANGED <<queue, processing, completed, workers, mediaJobs>>
       ELSE handleMediaSmartEnqueue(task)

\* The race of the quick download settles: the media is returned, or step 3.
QuickSettles(task, settled) ==
    /\ task.pc = "quickDownload"
    /\ UNCHANGED <<messageTypes, smartCalls, enqueues>>
    /\ SmartFrame
    /\ IF settled = "media"
       THEN /\ SmartReturns(task, "quick", "ready")
            /\ smartTasks' = smartTasks \ {task}
            /\ UNCHANGED <<queue, processing, completed, workers, mediaJobs>>
       ELSE handleMediaSmartEnqueue(task)

InitSmart == InitMedia

NextSmart ==
    \/ \E m \in MessageIds, type \in MediaTypes : SmartCalled(m, type)
    \/ \E task \in smartTasks, exists \in BOOLEAN : TempFileChecked(task, exists)
    \/ \E task \in smartTasks, settled \in QuickResults : QuickSettles(task, settled)
    \/ \E w \in WorkerIds : WorkerTakesJob(w)
    \/ \E w \in WorkerIds : DownloadSettles(w)
    \/ \E w \in WorkerIds : JobTimesOut(w)
    \/ \E m \in MessageIds : AbandonedDownloadSettles(m)
    \/ MediaTick

SpecSmart == InitSmart /\ [][NextSmart]_vars

-----------------------------
(* SpecCache: the chat cache under the events and calls that reach it.     *)
(* The client stays in the clients map; of each handler the part that      *)
(* reads or writes the cache is modelled, its other effects are those of   *)
(* Spec.  Under Spec no snapshot is loaded, so that the clearCache calls   *)
(* of handleDisconnection and removeClient leave the cache as it is.       *)

\* Events and calls SpecCache makes before it stops.
MaxCacheOps == 3

\* The clock stops at this value.
MaxCacheClock == 1

\* Inbound messages are counted up to this unreadCount.
MaxUnread == 6

\* unreadCount of the chats of a snapshot.
SnapshotUnreads == {0, 5}

\* message.timestamp and chat.timestamp are in seconds.
Seconds(ms) == ms \div 1000

\* What client.getChats() resolves with: chats of the library, among them
\* or not the status pseudo-chat, each a group exactly when its id is one
\* of a group.
GetChatsResults ==
    UNION {{[id \in D |-> [isGroup |-> EndsWithGUs(id),
                           unreadCount |-> IF id = StatusBroadcast THEN 0 ELSE unread[id],
                           timestamp |-> Seconds(cacheClock)]] :
                unread \in [D -> SnapshotUnreads]} : D \in SUBSET ChatIds}

SetCC(cc) ==
    /\ chatCache' = cc.chatCache
    /\ unreadChats' = cc.unreadChats
    /\ groupCache' = cc.groupCache
    /\ isLoaded' = cc.isLoaded
    /\ groupsLoaded' = cc.groupsLoaded

InitCache == Init

CacheFrame == UNCHANGED <<states, stateHistory, storeVars, rmVars, waVars, mediaVars>>

\* One more event or call.
CacheOp ==
    /\ cacheOps < MaxCacheOps
    /\ cacheOps' = cacheOps + 1

\* A step of a pending task or timer, or of the clock.
CacheStep == UNCHANGED cacheOps

\* The snapshots loaded since the last clearCache, after a call of
\* initializeCache with `chats` (a call that writes nothing loads nothing).
Loaded(c, chats) ==
    IF initializeCache(CC, c, chats) = CC THEN loads[c] ELSE loads[c] + 1

\* The ready handler schedules the deferred load of the cache.
CacheReady(c) ==
    /\ CacheOp
    /\ cacheInitScheduled' = [cacheInitScheduled EXCEPT ![c] = TRUE]
    /\ cacheTasks' = IF cacheInitScheduled[c] THEN cacheTasks
                     ELSE cacheTasks \cup {[kind |-> "deferred", number |-> c, pc |-> "timer"]}
    /\ event' = [op |-> "ready", number |-> c]
    /\ UNCHANGED <<chatCache, unreadChats, groupCache, isLoaded, groupsLoaded,
                   cacheClock, loads>>
    /\ CacheFrame

\* The timer of the ready handler fires: initializeChatCache up to the
\* await of getChats(), or through its finally block when the cache is
\* ready.
DeferredTimerFires(c) ==
    /\ CacheStep
    /\ \E task \in cacheTasks :
        /\ task = [kind |-> "deferred", number |-> c, pc |-> "timer"]
        /\ IF isCacheReady(CC, c)
           THEN /\ cacheTasks' = cacheTasks \ {task}
                /\ cacheInitScheduled' = [cacheInitScheduled EXCEPT ![c] = FALSE]
           ELSE /\ cacheTasks' = (cacheTasks \ {task}) \cup {[task EXCEPT !.pc = "getChats"]}
                /\ UNCHANGED cacheInitScheduled
    /\ event' = [op |-> "initializeChatCache", number |-> c]
    /\ UNCHANGED <<chatCache, unreadChats, groupCache, isLoaded, groupsLoaded,
                   cacheClock, loads>>
    /\ CacheFrame

\* getGroupChats finds the groups loaded, or starts to wait for them.
GetGroupChats(c) ==
    /\ CacheOp
    /\ \A task \in cacheTasks : task.kind # "forced"
    /\ cacheTasks' = IF areGroupsLoaded(CC, c) THEN cacheTasks
                     ELSE cacheTasks \cup {[kind |-> "forced", number |-> c, pc |-> "wait"]}
    /\ event' = [op |-> "getGroupChats", number |-> c, groups |-> getAllGroups(CC, c)]
    /\ UNCHANGED <<chatCache, unreadChats, groupCache, isLoaded, groupsLoaded,
                   cacheInitScheduled, cacheClock, loads>>
    /\ CacheFrame

\* The wait of getGroupChats ends: the groups are loaded, or 3 s are over
\* and it calls getChats().
ForcedWaitEnds(c) ==
    /\ CacheStep
    /\ \E task \in cacheTasks :
        /\ task = [kind |-> "forced", number |-> c, pc |-> "wait"]
        /\ cacheTasks' = IF areGroupsLoaded(CC, c) THEN cacheTasks \ {task}
                         ELSE (cacheTasks \ {task}) \cup {[task EXCEPT !.pc = "getChats"]}
    /\ event' = [op |-> "getGroupChatsWaited", number |-> c]
    /\ UNCHANGED <<chatCache, unreadChats, groupCache, isLoaded, groupsLoaded,
                   cacheInitScheduled, cacheClock, loads>>
    /\ CacheFrame

\* getChats() of a load resolves and the load calls initializeCache.
GetChatsResolves(c) ==
    /\ CacheStep
    /\ \E task \in cacheTasks, chats \in GetChatsResults :
        /\ task.number = c
        /\ task.pc = "getChats"
        /\ cacheTasks' = cacheTasks \ {task}
        /\ cacheInitScheduled' = IF task.kind = "deferred"
                                 THEN [cacheInitScheduled EXCEPT ![c] = FALSE]
                                 ELSE cacheInitScheduled
        /\ SetCC(initializeCache(CC, c, chats))
        /\ loads' = [loads EXCEPT ![c] = Loaded(c, chats)]
        /\ event' = [op |-> "initializeCache", number |-> c, kind |-> task.kind,
                     chats |-> chats, loaded |-> isLoaded[c]]
    /\ UNCHANGED cacheClock
    /\ CacheFrame

\* getChats() of a load rejects, or the 30 s of the deferred load are over.
GetChatsRejects(c) ==
    /\ CacheStep
    /\ \E task \in cacheTasks :
        /\ task.number = c
        /\ task.pc = "getChats"
        /\ cacheTasks' = cacheTasks \ {task}
        /\ cacheInitScheduled' = IF task.kind = "deferred"
                                 THEN [cacheInitScheduled EXCEPT ![c] = FALSE]
                                 ELSE cacheInitScheduled
        /\ event' = [op |-> "getChatsRejected", number |-> c, kind |-> task.kind]
    /\ UNCHANGED <<chatCache, unreadChats, groupCache, isLoaded, groupsLoaded,
                   cacheClock, loads>>
    /\ CacheFrame

\* updateCacheOnMessage(number, message)
updateCacheOnMessage(cc, number, from, fromMe, t) ==
    IF from = StatusBroadcast THEN cc
    ELSE LET updated == updateChat(cc, number, from,
                                   [timestamp |-> Seconds(t), isGroup |-> EndsWithGUs(from)])
         IN  IF ~fromMe
             THEN markAsUnread(updated, number, from, 1, t)
             ELSE markAsRead(updated, number, from, t)

\* The unreadCount of a chat before a step (0 without an entry).
UnreadBefore(c, id) == IF Has(chatCache[c], id) THEN UnreadCountOf(chatCache[c][id]) ELSE 0

\* A message event.
CacheMessage(c, from, fromMe) ==
    /\ CacheOp
    /\ Has(chatCache[c], from) => UnreadCountOf(chatCache[c][from]) < MaxUnread
    /\ SetCC(updateCacheOnMessage(CC, c, from, fromMe, cacheClock))
    /\ event' = [op |-> "message", number |-> c, from |-> from, fromMe |-> fromMe,
                 before |-> UnreadBefore(c, from)]
    /\ UNCHANGED <<cacheInitScheduled, cacheTasks, cacheClock, loads>>
    /\ CacheFrame

\* sendMessage(number, to, message) whose client.sendMessage resolves.
CacheSendMessage(c, to) ==
    /\ CacheOp
    /\ SetCC(markAsRead(CC, c, to, cacheClock))
    /\ event' = [op |-> "sendMessage", number |-> c, to |-> to,
                 before |-> UnreadBefore(c, to)]
    /\ UNCHANGED <<cacheInitScheduled, cacheTasks, cacheClock, loads>>
    /\ CacheFrame

\* group_join: addGroupToCache up to the await of getChatById.
GroupJoin(c, chatId) ==
    /\ CacheOp
    /\ \A task \in cacheTasks : task.kind # "join"
    /\ cacheTasks' = cacheTasks \cup {[kind |-> "join", number |-> c, pc |-> chatId]}
    /\ event' = [op |-> "group_join", number |-> c, chatId |-> chatId]
    /\ UNCHANGED <<chatCache, unreadChats, groupCache, isLoaded, groupsLoaded,
                   cacheInitScheduled, cacheClock, loads>>
    /\ CacheFrame

\* What a Date.now() can return that follows, in the same synchronous code,
\* one that returned t: the same millisecond or the next.
NextRead(t) == {t, Min(t + 1, MaxCacheClock)}

\* getChatById of addGroupToCache resolves with the group chat; the clock
\* may advance between the two Date.now() of addGroup.
GetChatByIdResolves(c) ==
    /\ CacheStep
    /\ \E task \in cacheTasks, t2 \in NextRead(cacheClock) :
        /\ task.kind = "join"
        /\ task.number = c
        /\ cacheTasks' = cacheTasks \ {task}
        /\ SetCC(addGroup(CC, c, task.pc, cacheClock, t2))
        /\ cacheClock' = t2
        /\ event' = [op |-> "addGroup", number |-> c, chatId |-> task.pc]
    /\ UNCHANGED <<cacheInitScheduled, loads>>
    /\ CacheFrame

\* getChatById of addGroupToCache rejects.
GetChatByIdRejects(c) ==
    /\ CacheStep
    /\ \E task \in cacheTasks :
        /\ task.kind = "join"
        /\ task.number = c
        /\ cacheTasks' = cacheTasks \ {task}
        /\ event' = [op |-> "getChatByIdRejected", number |-> c, chatId |-> task.pc]
    /\ UNCHANGED <<chatCache, unreadChats, groupCache, isLoaded, groupsLoaded,
                   cacheInitScheduled, cacheClock, loads>>
    /\ CacheFrame

\* group_leave
GroupLeave(c, chatId) ==
    /\ CacheOp
    /\ SetCC(removeGroup(CC, c, chatId))
    /\ event' = [op |-> "group_leave", number |-> c, chatId |-> chatId]
    /\ UNCHANGED <<cacheInitScheduled, cacheTasks, cacheClock, loads>>
    /\ CacheFrame

\* group_update: updateGroupFromNotification
GroupUpdate(c, chatId) ==
    /\ CacheOp
    /\ SetCC(updateChat(CC, c, chatId, [timestamp |-> cacheClock]))
    /\ event' = [op |-> "group_update", number |-> c, chatId |-> chatId]
    /\ UNCHANGED <<cacheInitScheduled, cacheTasks, cacheClock, loads>>
    /\ CacheFrame

\* getGroupChats has fetched the metadata of a group it read from the cache.
GroupMetadataFetched(c, chatId) ==
    /\ CacheOp
    /\ SetCC(updateGroupMetadata(CC, c, chatId))
    /\ event' = [op |-> "updateGroupMetadata", number |-> c, chatId |-> chatId]
    /\ UNCHANGED <<cacheInitScheduled, cacheTasks, cacheClock, loads>>
    /\ CacheFrame

\* handleDisconnection of a client without a session.
CacheDisconnected(c) ==
    /\ CacheOp
    /\ SetCC(clearCache(CC, c))
    /\ cacheInitScheduled' = [cacheInitScheduled EXCEPT ![c] = FALSE]
    /\ loads' = [loads EXCEPT ![c] = 0]
    /\ event' = [op |-> "clearCache", number |-> c]
    /\ UNCHANGED <<cacheTasks, cacheClock>>
    /\ CacheFrame

\* A millisecond passes.
CacheTick ==
    /\ CacheStep
    /\ cacheClock < MaxCacheClock
    /\ cacheClock' = cacheClock + 1
    /\ event' = [op |-> "tick"]
    /\ UNCHANGED <<chatCache, unreadChats, groupCache, isLoaded, groupsLoaded,
                   cacheInitScheduled, cacheTasks, loads>>
    /\ CacheFrame

NextCache ==
    \/ CacheTick
    \/ \E c \in Clients :
        \/ CacheReady(c)
        \/ DeferredTimerFires(c)
        \/ GetGroupChats(c)
        \/ ForcedWaitEnds(c)
        \/ GetChatsResolves(c)
        \/ GetChatsRejects(c)
        \/ GetChatByIdResolves(c)
        \/ GetChatByIdRejects(c)
        \/ CacheDisconnected(c)
        \/ \E from \in ChatIds, fromMe \in BOOLEAN : CacheMessage(c, from, fromMe)
        \/ \E to \in ChatIds \ {StatusBroadcast} : CacheSendMessage(c, to)
        \/ \E chatId \in Groups :
            \/ GroupJoin(c, chatId)
            \/ GroupLeave(c, chatId)
            \/ GroupUpdate(c, chatId)
            \/ GroupMetadataFetched(c, chatId)

SpecCache == InitCache /\ [][NextCache]_vars

-----------------------------
(* Claims about the reconnection manager, checked under SpecRecon *)

ArmedOf(c) == {t \in armed : t.number = c}

\* A step in which scheduleReconnection(c, ...) returned a schedule (only
\* then is the attempt counter incremented).
AcceptedSchedule(c) == reconnectAttempts'[c] = reconnectAttempts[c] + 1

\* C1 (state): each client has at most one armed timer, and it is the one
\* whose handle reconnectTimers holds.
C1_AtMostOneArmed ==
    \A c \in Clients :
        /\ Cardinality(ArmedOf(c)) <= 1
        /\ \A t \in ArmedOf(c) : reconnectTimers[c] = t.id

\* C1 (step): a scheduleReconnection that returns a schedule leaves armed, for
\* that client, the new timer alone: the timer armed before is cancelled, and
\* a callback starts only for a timer that was armed and is due.
C1_ReplaceCancels ==
    /\ \A c \in Clients :
        AcceptedSchedule(c) =>
            /\ \A t \in ArmedOf(c) :
                /\ t \notin armed'
                /\ t.id \notin {f.id : f \in inflight' \ inflight}
            /\ Cardinality({t \in armed' : t.number = c}) = 1
            /\ \A t \in armed' : t.number = c => t.armedAt = Now
    /\ \A f \in inflight' \ inflight :
        \E t \in armed : t.id = f.id /\ t.number = f.number /\ t.due <= Now

\* C1: at most one armed timer per client in every state, and a replaced
\* timer is cancelled and never runs its recoverFn.
C1_OneTimerPerClient == []C1_AtMostOneArmed /\ [][C1_ReplaceCancels]_vars

\* A second schedule was accepted while the first timer was pending: the
\* counter is 2 and one timer, armed just now, is pending.
C1_Witness ==
    \E c \in Clients :
        /\ reconnectAttempts[c] = 2
        /\ event.op = "scheduleReconnection"
        /\ event.value # Null
        /\ event.value.attempt = 2
        /\ \E t \in ArmedOf(c) : t.armedAt = Now /\ lastReconnectTime[c] = NoTime

C3_ExhaustedState ==
    \A c \in Clients :
        /\ reconnectAttempts[c] <= maxAttempts
        /\ reconnectAttempts[c] = maxAttempts => ~getStatus(RM, c, Now).canReconnect

\* C3 (step): at maxAttempts a step either keeps the counter, arms no timer
\* for the client and answers every scheduleReconnection with null, or it is
\* a reset, after which the counter is 0, no timer is armed and canReconnect
\* is true.
C3_ExhaustedStep ==
    \A c \in Clients :
        reconnectAttempts[c] = maxAttempts =>
            \/ /\ reconnectAttempts'[c] = maxAttempts
               /\ {t \in armed' : t.number = c} \subseteq
                    {[t EXCEPT !.armedAt = ShiftTimeWithin(@, d, minSpacing),
                               !.due = ShiftDue(@, d)]
                        : t \in ArmedOf(c), d \in {0} \cup ReconInstants}
               /\ (event'.op = "scheduleReconnection" /\ event'.number = c)
                    => event'.value = Null
            \/ /\ reconnectAttempts'[c] = 0
               /\ event'.op \in {"resetAttempts", "callbackResolved"}
               /\ {t \in armed' : t.number = c} = {}
               /\ reconnectTimers'[c] = NoTimer
               /\ getStatus(RM', c, Now).canReconnect

\* C3: both parts.
C3_ExhaustedUntilReset == []C3_ExhaustedState /\ [][C3_ExhaustedStep]_vars

\* A scheduleReconnection rejected because the counter is at the limit (no
\* timer has fired since the last reset, so the spacing guard is not it).
C3_Witness ==
    \E c \in Clients :
        /\ reconnectAttempts[c] = maxAttempts
        /\ lastReconnectTime[c] = NoTime
        /\ event.op = "scheduleReconnection"
        /\ event.number = c
        /\ event.value = Null

\* C4 as stated: when the callback of a fired timer rejects while the counter
\* is below maxAttempts, a new timer is armed with the counter incremented.
C4_RescheduleOnFailure ==
    [][\A c \in Clients :
         (/\ event'.op = "callbackRejected"
          /\ event'.number = c
          /\ inflight' # inflight
          /\ reconnectAttempts[c] < maxAttempts)
         => /\ reconnectAttempts'[c] = reconnectAttempts[c] + 1
            /\ \E t \in armed' : t.number = c /\ t.armedAt = Now]_vars

\* C5: when the callback of a fired timer resolves, afterwards the counter is
\* 0, getStatus(id).hasScheduledReconnect is false and no timer is pending.
C5_SuccessResets ==
    [][\A c \in Clients :
         (/\ event'.op = "callbackResolved"
          /\ event'.number = c
          /\ inflight' # inflight)
         => /\ reconnectAttempts'[c] = 0
            /\ getStatus(RM', c, Now).attempts = 0
            /\ ~getStatus(RM', c, Now).hasScheduledReconnect
            /\ {t \in armed' : t.number = c} = {}]_vars

\* The callback of a fired timer has just resolved.
C5_Witness ==
    \E c \in Clients :
        /\ event.op = "callbackResolved"
        /\ event.number = c
        /\ reconnectAttempts[c] = 0
        /\ reconnectTimers[c] = NoTimer

-----------------------------------------------------------------------------
(* Claims about the supervision as a whole, checked under Spec *)

\* The reconnection attempts of c are exhausted: the counter is at
\* maxAttempts, the callback of the last timer has failed (none is running)
\* and no timer is armed.
Exhausted(c) ==
    /\ reconnectAttempts[c] = maxAttempts
    /\ ArmedOf(c) = {}
    /\ \A f \in inflight : f.number # c

\* The steps of scheduler timers and of the watchdog.
SupervisionOps ==
    {"timerFired", "performHealthCheck", "checkClientHealth.checked",
     "fullRestart.schedule", "refreshClient.resolved", "refreshClient.rejected",
     "reconnectWebSocket.resolved", "reconnectWebSocket.rejected"}

\* C6 as stated: once the attempts of a client are exhausted, a step of a
\* scheduler timer or of the watchdog starts no recovery callback for the
\* client and leaves its lifecycle state in the store as it is.
C6_QuietAfterExhaustion ==
    [][\A c \in Clients :
        (Exhausted(c) /\ event'.op \in SupervisionOps) =>
            /\ FromOf(states'[c]) = FromOf(states[c])
            /\ \A f \in inflight' : f.number # c]_vars

\* C10 as stated: once removeClient(number) has returned and a watchdog run
\* that began after that has ended, the store has neither a state nor a
\* history for the client.
C10_ClearedAfterRemoval ==
    \A c \in Clients :
        removed[c] = "ticked" =>
            /\ getState(Store, c) = Absent
            /\ getHistory(Store, c) = << >>

-----------------------------------------------------------------------------
(* Claims about the state store, checked under SpecStore *)

\* C7: getHistory(id) never has more than 50 entries and always equals the
\* last min(n, 50) of the n transitions setState recorded for id, oldest
\* first: the 51st transition evicts the oldest entry.
C7_HistoryIsLast50 ==
    \A c \in Clients :
        LET h == getHistory(Store, c)
            n == Len(recorded[c])
        IN  /\ Len(h) <= 50
            /\ Len(h) = Min(n, 50)
            /\ h = SubSeq(recorded[c], n - Len(h) + 1, n)

\* A 52nd transition has been recorded: the history holds transitions 3..52.
C7_Witness ==
    \E c \in Clients :
        /\ Len(recorded[c]) = 52
        /\ Len(getHistory(Store, c)) = 50
        /\ getHistory(Store, c)[1] = recorded[c][3]
        /\ getHistory(Store, c)[1] # recorded[c][1]

\* C8: isHealthy(id) is true for AUTHENTICATED and READY and false for each
\* of the other eight lifecycle states and for a client without an entry.
C8_IsHealthyPerState ==
    \A c \in Clients :
        LET e == states[c]
            h == isHealthy(Store, c)
        IN  /\ e = Absent => ~h
            /\ e # Absent =>
                /\ e.state = "INITIALIZING"   => ~h
                /\ e.state = "WAITING_QR"     => ~h
                /\ e.state = "AUTHENTICATING" => ~h
                /\ e.state = "AUTHENTICATED"  => h
                /\ e.state = "READY"          => h
                /\ e.state = "DISCONNECTED"   => ~h
                /\ e.state = "AUTH_FAILURE"   => ~h
                /\ e.state = "ERROR"          => ~h
                /\ e.state = "RECONNECTING"   => ~h
                /\ e.state = "ZOMBIE"         => ~h

\* A client that was AUTHENTICATING (not healthy) and is now READY (healthy).
C8_Witness ==
    \E c \in Clients :
        /\ states[c] # Absent
        /\ states[c].state = "READY"
        /\ states[c].previousState = "AUTHENTICATING"
        /\ isHealthy(Store, c)

Last(s) == s[Len(s)]

\* C9 (the call): a setState(id, s, m) call returns a record with to = s
\* and from = the state before the call ('UNKNOWN' without an entry);
\* after it getState(id) has state s and previousState the prior state, and
\* the record is the last entry of getHistory(id).
C9_SetStateStep ==
    \A c \in Clients :
        (event'.op = "setState" /\ event'.number = c /\ recorded'[c] # recorded[c]) =>
            /\ event'.value.to = NextArgs(c).state
            /\ event'.value.from = FromOf(states[c])
            /\ states'[c] # Absent
            /\ states'[c].state = NextArgs(c).state
            /\ states'[c].metadata = NextArgs(c).metadata
            /\ states'[c].previousState =
                    (IF states[c] = Absent THEN None ELSE states[c].state)
            /\ stateHistory'[c] # << >>
            /\ Last(stateHistory'[c]) = event'.value

\* C9 (the consequence): the last entry's `to` is the current state and each
\* entry's `from` is the preceding entry's `to`.
C9_HistoryChain ==
    \A c \in Clients :
        LET h == getHistory(Store, c)
        IN  h # << >> =>
                /\ states[c] # Absent
                /\ Last(h).to = states[c].state
                /\ \A i \in 2..Len(h) : h[i].from = h[i - 1].to

\* C9: both parts.
C9_SetStateRecords == [][C9_SetStateStep]_vars /\ []C9_HistoryChain

\* A full history (one entry already evicted) whose first kept entry does not
\* start from 'UNKNOWN', and whose last entry came from a different state.
C9_Witness ==
    \E c \in Clients :
        /\ Len(getHistory(Store, c)) = 50
        /\ Len(recorded[c]) > 50
        /\ getHistory(Store, c)[1].from # "UNKNOWN"
        /\ Last(getHistory(Store, c)).from # Last(getHistory(Store, c)).to
        /\ event.op = "setState"

-----------------------------------------------------------------------------
(* Claims about the media queue                                            *)

\* The jobs of messageId m that exist: queued ones and ones in progress.
JobsOf(m) ==
    Cardinality({i \in 1..Len(queue) : queue[i].messageId = m})
        + Cardinality({w \in WorkerIds : workers[w] # NoJob /\ workers[w].job.messageId = m})

\* messageId m is queued, being processed or completed.
KnownJob(m) ==
    \/ \E i \in 1..Len(queue) : queue[i].messageId = m
    \/ m \in processing
    \/ completed[m] # Absent

\* C11: enqueue of a messageId that is queued, being processed or completed
\* returns 'completed' when it is completed and 'processing' or 'queued'
\* otherwise, and leaves the queue, the processing set and the completed
\* map as they are; at no time are there two jobs of one messageId, and a
\* completed messageId has no job.
C11_EnqueueIdempotent ==
    /\ [](\A m \in MessageIds :
            /\ JobsOf(m) <= 1
            /\ completed[m] # Absent => JobsOf(m) = 0)
    /\ [][\A m \in MessageIds :
            (event'.op = "enqueue" /\ event'.messageId = m /\ KnownJob(m))
                => /\ event'.value \in {"completed", "processing", "queued"}
                   /\ event'.value = "completed" <=> completed[m] # Absent
                   /\ queue' = queue
                   /\ processing' = processing
                   /\ completed' = completed
                   /\ workers' = workers]_vars

\* enqueue was called again, with another priority, for a messageId whose
\* job a worker is processing.
C11_Witness ==
    /\ event.op = "enqueue"
    /\ event.value = "processing"
    /\ event.messageId \in processing
    /\ \E w \in WorkerIds :
        /\ workers[w] # NoJob
        /\ workers[w].job.messageId = event.messageId
        /\ workers[w].job.priority # event.priority

\* Job a has a strictly smaller (priority, enqueuedAt) than job b.
StrictlyBefore(a, b) ==
    \/ a.priority < b.priority
    \/ a.priority = b.priority /\ a.enqueuedAt < b.enqueuedAt

\* C12: the job a worker takes was queued, leaves the queue, and no job
\* that stays queued has a strictly smaller priority, or the same priority
\* and a strictly earlier enqueuedAt.
C12_SmallestJobFirst ==
    [][event'.op = "getNextJob"
        => /\ \E i \in 1..Len(queue) : queue[i] = event'.job
           /\ Len(queue') = Len(queue) - 1
           /\ workers'[event'.worker].job.messageId = event'.job.messageId
           /\ \A i \in 1..Len(queue) :
                queue[i] # event'.job => ~StrictlyBefore(queue[i], event'.job)]_vars

\* A worker has taken a job while a job enqueued earlier, of a larger
\* priority value, stays queued.
C12_Witness ==
    /\ event.op = "getNextJob"
    /\ \E i \in 1..Len(queue) :
        /\ queue[i].priority > workers[event.worker].job.priority
        /\ queue[i].enqueuedAt < workers[event.worker].job.enqueuedAt

\* C13 as stated: a processing attempt that ends without media data (the
\* download threw, timed out or yielded no media) is a failure: after the
\* first one the job is back in the queue with one attempt counted, after
\* the second one the completed map has an entry with error = true for it;
\* and no job is processed more than 2 times.
C13_EveryFailureCounts ==
    /\ [](\A m \in MessageIds : mediaJobs[m].runs <= mediaRetryAttempts)
    /\ [][(event'.op = "processJob" /\ event'.settled # "mediaData")
            => IF event'.attempts + 1 < mediaRetryAttempts
               THEN \E i \in 1..Len(queue') :
                        /\ queue'[i].messageId = event'.messageId
                        /\ queue'[i].attempts = event'.attempts + 1
               ELSE /\ completed'[event'.messageId] # Absent
                    /\ completed'[event'.messageId].error]_vars

\* C14 as stated: getStatus never answers not_found for a messageId that
\* was enqueued and whose entry cleanup has not purged, and, the workers
\* being scheduled fairly and every download attempt ending, such a
\* messageId eventually has an entry in the completed map.
C14_EveryJobCompletes ==
    /\ [](\A m \in MessageIds :
            mediaJobs[m].live => MediaQueue_getStatus(MQ, m).status # "not_found")
    /\ \A m \in MessageIds :
            [](mediaJobs[m].live => <>(completed[m] # Absent))

-----------------------------------------------------------------------------
(* Claims about the chat cache                                             *)

\* The chat ids of client c whose cache entry exists with unreadCount > 0.
UnreadEntries(c) ==
    {id \in ChatIds : Has(chatCache[c], id) /\ Field(chatCache[c][id], "unreadCount", 0) > 0}

\* C15 as stated: while the cache of a client is initialized, its unread
\* index is exactly the set of the chat ids whose cache entry exists and
\* has unreadCount > 0.
C15_UnreadIndexMirrorsEntries ==
    \A c \in Clients :
        isLoaded[c] => unreadChats[c].ids = UnreadEntries(c)

\* C16: when a markAsRead of a chat follows a markAsUnread of it (an
\* inbound message, then an outbound one or a sendMessage), the chat, if
\* cached, has unreadCount 0, its id is not in the unread index and not
\* among the chats getUnreadChats returns, and its entry of the group
\* sub-index, if any, has unreadCount 0.
C16_ReadAfterUnread ==
    [][\A c \in Clients, id \in ChatIds \ {StatusBroadcast} :
        (/\ event.op = "message" /\ event.number = c /\ event.from = id /\ ~event.fromMe
         /\ \/ event'.op = "message" /\ event'.number = c /\ event'.from = id /\ event'.fromMe
            \/ event'.op = "sendMessage" /\ event'.number = c /\ event'.to = id
         /\ isLoaded[c])
            => /\ Has(chatCache'[c], id) /\ chatCache'[c][id].unreadCount = 0
               /\ id \notin unreadChats'[c].ids
               /\ id \notin getUnreadChats([CC EXCEPT !.chatCache = chatCache',
                                                       !.unreadChats = unreadChats'], c)
               /\ Has(groupCache'[c], id) => groupCache'[c][id].unreadCount = 0]_vars

\* A group was loaded with 5 unread messages, got an inbound message, and
\* then a message was sent to it.
C16_Witness ==
    \E c \in Clients, id \in Groups :
        /\ event.op = "sendMessage"
        /\ event.number = c
        /\ event.to = id
        /\ event.before = 6
        /\ Has(groupCache[c], id)
        /\ groupCache[c][id].unreadCount = 0
        /\ chatCache[c][id].unreadCount = 0
        /\ id \notin unreadChats[c].ids

\* The step records an outbound message for chat id of client c: a
\* sendMessage that resolved, or a message event with fromMe.
Outbound(c, id) ==
    \/ event'.op = "sendMessage" /\ event'.number = c /\ event'.to = id
    \/ event'.op = "message" /\ event'.number = c /\ event'.from = id /\ event'.fromMe

\* The step is an inbound message event for chat id of client c.
Inbound(c, id) ==
    event'.op = "message" /\ event'.number = c /\ event'.from = id /\ ~event'.fromMe

\* C17 as stated: for a chat that is and stays in an initialized cache, a
\* step that records an outbound message for it leaves its unreadCount at
\* 0, an inbound message event for it adds exactly 1, and every other step
\* leaves its unreadCount as it was.
C17_UnreadCountChanges ==
    [][\A c \in Clients, id \in ChatIds :
        (isLoaded[c] /\ isLoaded'[c] /\ Has(chatCache[c], id) /\ Has(chatCache'[c], id))
            => LET before == UnreadCountOf(chatCache[c][id])
                   after  == UnreadCountOf(chatCache'[c][id])
               IN  /\ Outbound(c, id) => after = 0
                   /\ Inbound(c, id) => after = before + 1
                   /\ ~Outbound(c, id) /\ ~Inbound(c, id) => after = before]_vars

\* The cache after the step.
CCNext == [chatCache |-> chatCache', unreadChats |-> unreadChats', groupCache |-> groupCache',
           isLoaded |-> isLoaded', groupsLoaded |-> groupsLoaded']

\* C18: initializeCache(c, chats) for a client whose cache is not loaded
\* makes the chat index the chats of the snapshot without status@broadcast
\* (with their isGroup, unreadCount and timestamp), the group sub-index
\* the indexed chats with isGroup, the unread index the indexed chats with
\* unreadCount > 0, and the cache ready.
C18_InitializeBuildsIndexes ==
    [][\A c \in Clients :
        (event'.op = "initializeCache" /\ event'.number = c /\ ~isLoaded[c])
            => LET chats == event'.chats
                   kept == DOMAIN chats \ {StatusBroadcast}
               IN  /\ {id \in ChatIds : Has(chatCache'[c], id)} = kept
                   /\ \A id \in kept :
                        /\ chatCache'[c][id].isGroup = chats[id].isGroup
                        /\ chatCache'[c][id].unreadCount = chats[id].unreadCount
                        /\ chatCache'[c][id].timestamp = chats[id].timestamp
                   /\ getAllGroups(CCNext, c) = {id \in kept : chats[id].isGroup}
                   /\ unreadChats'[c].ids = {id \in kept : chats[id].unreadCount > 0}
                   /\ getUnreadChats(CCNext, c) = {id \in kept : chats[id].unreadCount > 0}
                   /\ isCacheReady(CCNext, c)
                   /\ areGroupsLoaded(CCNext, c)]_vars

\* The cache was loaded from a snapshot of an individual chat without
\* unread messages, a group with 5 and the status pseudo-chat:
\* getUnreadChats returns the group only, getAllGroups one entry.
C18_Witness ==
    \E c \in Clients :
        /\ event.op = "initializeCache"
        /\ event.number = c
        /\ ~event.loaded
        /\ DOMAIN event.chats = ChatIds
        /\ \A id \in Individuals : event.chats[id].unreadCount = 0
        /\ \A id \in Groups : event.chats[id].unreadCount = 5
        /\ getUnreadChats(CC, c) = Groups
        /\ getAllGroups(CC, c) = Groups
        /\ Cardinality(getAllGroups(CC, c)) = 1
        /\ ~Has(chatCache[c], StatusBroadcast)

\* C19: a call of initializeCache for a client whose cache is loaded
\* leaves the chat index, the group sub-index, the unread index and the
\* ready flags as they are, whatever the snapshot; and, the deferred load
\* of the ready handler and the forced load of getGroupChats interleaving
\* in any way, the indexes are loaded from a snapshot at most once between
\* two clearCache calls.
C19_LoadedOnce ==
    /\ [](\A c \in Clients : loads[c] <= 1 /\ (isLoaded[c] <=> loads[c] = 1))
    /\ [][\A c \in Clients :
            (event'.op = "initializeCache" /\ event'.number = c /\ isLoaded[c])
                => /\ chatCache' = chatCache
                   /\ groupCache' = groupCache
                   /\ unreadChats' = unreadChats
                   /\ isLoaded' = isLoaded
                   /\ groupsLoaded' = groupsLoaded]_vars

\* Both loads were under way; the deferred one loaded the cache first,
\* and the forced one then called initializeCache with other chats.
C19_Witness ==
    \E c \in Clients :
        /\ event.op = "initializeCache"
        /\ event.number = c
        /\ event.kind = "forced"
        /\ event.loaded
        /\ DOMAIN event.chats \ {StatusBroadcast} # {id \in ChatIds : Has(chatCache[c], id)}
        /\ loads[c] = 1
        /\ cacheTasks = {}

\* C20 as stated: every entry of the group sub-index of a client has a
\* chat-index entry of the same id, with the same unreadCount and the same
\* timestamp.
C20_GroupEntryMirrorsChat ==
    \A c \in Clients, id \in ChatIds :
        Has(groupCache[c], id)
            => /\ Has(chatCache[c], id)
               /\ Field(groupCache[c][id], "unreadCount", 0)
                    = Field(chatCache[c][id], "unreadCount", 0)
               /\ groupCache[c][id].timestamp = chatCache[c][id].timestamp

\* The ids of the chat-index entries of client c with isGroup = true.
GroupChats(c) ==
    {id \in ChatIds : Has(chatCache[c], id) /\ Field(chatCache[c][id], "isGroup", FALSE)}

\* C21 as stated: while the cache of a client is initialized, its group
\* sub-index holds exactly the ids of the chat-index entries with
\* isGroup = true, a group first seen through an incoming message included.
C21_GroupIndexIsTheGroups ==
    \A c \in Clients :
        isLoaded[c] => getAllGroups(CC, c) = GroupChats(c)

-----------------------------------------------------------------------------
(* Claims about the watchdog's checks and recoveries, checked under Spec.  *)

\* The health check runs the step has suspended: those that were not there
\* before it.
SuspendedBy ==
    {x \in tasks' : /\ x.kind = "checkClientHealth"
                    /\ \A d \in Elapses : x \notin After(d).tasks}

\* The pcs at which the step has suspended the health check run it carried.
RecoveryPcs == {t.pc : t \in SuspendedBy}

\* The step has left fewer runs than a run of its own would: the run it carried
\* has ended, or it is suspended exactly as another run already is.
NoRunOfItsOwn ==
    /\ SuspendedBy = {}
    /\ Cardinality({x \in tasks' : x.kind = "checkClientHealth"})
         < Cardinality({x \in tasks : x.kind = "checkClientHealth"})
            + (IF event'.op = "performHealthCheck" THEN 1 ELSE 0)

\* The run the step carried is suspended at pc.
SuspendedAt(pc) ==
    \/ RecoveryPcs = {pc}
    \/ /\ NoRunOfItsOwn
       /\ \E x \in tasks' : x.kind = "checkClientHealth" /\ x.pc = pc

\* The run the step carried is suspended nowhere.
RunEnded == RecoveryPcs = {} /\ NoRunOfItsOwn

\* The step has carried checkClientHealth(c) to the end of its checks: the
\* tick itself for a session without a page, the settling of the probe
\* otherwise.
ChecksSettle(c) ==
    /\ clients[c] # NoSession
    /\ \/ /\ event'.op = "performHealthCheck"
          /\ sessions[clients[c]].page = "none"
          /\ "evaluate" \notin RecoveryPcs
       \/ event'.op = "checkClientHealth.checked" /\ event'.number = c
    /\ healthChecks'[c] # Absent

\* The recovery the step has started for c is the one of the first matching
\* rule (a recovery of a client that is registered no more has nothing to
\* await).
FirstMatchingRecovery(c) ==
    LET checks == healthChecks'[c].checks
        gone   == RunEnded /\ clients'[c] = NoSession
    IN  IF ~checks.processAlive \/ ~checks.browserResponsive
        THEN /\ states'[c] # Absent
             /\ states'[c].state = "RECONNECTING"
             /\ SuspendedAt("fullRestart") \/ gone
        ELSE IF ~checks.stateValid
             THEN SuspendedAt("refreshClient") \/ gone
             ELSE \/ SuspendedAt("reconnectWebSocket")
                  \/ gone
                  \/ /\ RunEnded
                     /\ sessions'[clients'[c]].page = "none"

\* The Client object sid runs no browser and will run none.
SessionDestroyed(sid) == sessions[sid] = NoSess \/ ~sessions[sid].live

\* scheduleReconnection(c, addClient) has just been called: it has armed a
\* timer, or it has refused (attempts exhausted, or too soon after the last
\* timer).
ReconnectionRequested(c) ==
    \/ \E t \in armed : /\ t.number = c
                        /\ t.callback = "addClient"
                        /\ t.armedAt = Now
                        /\ reconnectTimers[c] = t.id
    \/ ~canReconnect(RM, c, Now)

\* C22 as stated: an unhealthy check starts the recovery of the first matching
\* rule (process-alive or responsive failed: fullRestart; else state-valid
\* failed: refreshClient; else reconnectWebSocket), and when fullRestart has
\* run the session is destroyed, the client is not in the client map and a
\* reconnection has been requested from the scheduler.
C22_RecoveryByFirstRule ==
    /\ [][\A c \in Clients :
            (ChecksSettle(c) /\ ~healthChecks'[c].isHealthy) =>
                FirstMatchingRecovery(c)]_vars
    /\ [](event.op = "fullRestart.schedule" =>
            /\ clients[event.number] = NoSession
            /\ SessionDestroyed(event.sid)
            /\ ReconnectionRequested(event.number))

\* The four checks of the record.
AllChecksPass(hc) ==
    /\ hc.checks.processAlive
    /\ hc.checks.browserResponsive
    /\ hc.checks.stateValid
    /\ hc.checks.websocketActive

\* The step has left the state store, the client map, the registered session
\* and the scheduler as they were (d ms older).
NoActionTaken(c) ==
    \E d \in Elapses :
        /\ states' = After(d).states
        /\ stateHistory' = After(d).stateHistory
        /\ clients' = clients
        /\ clientReadyState' = clientReadyState
        /\ sessions'[clients[c]] = sessions[clients[c]]
        /\ reconnectAttempts' = After(d).reconnectAttempts
        /\ reconnectTimers' = After(d).reconnectTimers
        /\ lastReconnectTime' = After(d).lastReconnectTime
        /\ armed' = After(d).armed
        /\ inflight' = inflight

\* The step is the tick that starts the check of c, now suspended at the
\* probe with the process-alive check passed.
ProbeStarts(c) ==
    /\ clients[c] # NoSession
    /\ event'.op = "performHealthCheck"
    /\ \E t \in tasks' :
            /\ \A d \in Elapses : t \notin After(d).tasks
            /\ t.kind = "checkClientHealth"
            /\ t.pc = "evaluate"
            /\ t.number = c
            /\ t.processAlive

\* C23: the health record's isHealthy is the conjunction of its four checks,
\* and a check whose four checks pass takes no action: the state store, the
\* client map, the session and the scheduler's maps and timers are as they
\* were before each of its steps.
C23_HealthyCheckChangesNothing ==
    [][\A c \in Clients :
        /\ ProbeStarts(c) => NoActionTaken(c)
        /\ ChecksSettle(c) =>
            /\ healthChecks'[c].isHealthy <=> AllChecksPass(healthChecks'[c])
            /\ healthChecks'[c].isHealthy => NoActionTaken(c)]_vars

\* A probe has settled and the record of the check says healthy.
C23_Witness ==
    /\ event.op = "checkClientHealth.checked"
    /\ healthChecks[event.number] # Absent
    /\ healthChecks[event.number].isHealthy
    /\ clients[event.number] # NoSession
    /\ WatchdogTasks(World) = {}

\* The step has recorded a transition of c to ZOMBIE.
TurnsZombie(c) ==
    \E i \in DOMAIN stateHistory'[c] :
        /\ stateHistory'[c][i].to = "ZOMBIE"
        /\ stateHistory'[c][i].timestamp = Now

\* C24 as stated: whenever the responsive check of a client fails (the probe
\* times out, answers falsy or throws, or the session has no page), the check
\* is recorded unhealthy and the client's state is transitioned to ZOMBIE.
C24_UnresponsiveTurnsZombie ==
    [][\A c \in Clients :
        (ChecksSettle(c) /\ ~healthChecks'[c].checks.browserResponsive) =>
            /\ ~healthChecks'[c].isHealthy
            /\ TurnsZombie(c)]_vars

\* The state-valid rule applied to one entry of the store: its state and the
\* age of that same entry at time t.
EntryValid(entry, t) ==
    /\ entry # Absent
    /\ ~(entry.state = "WAITING_QR" /\ t - entry.timestamp > maxQrAge)
    /\ ~(entry.state = "INITIALIZING" /\ t - entry.timestamp > maxInitializationTime)
    /\ ~(/\ entry.state \in {"AUTHENTICATING", "RECONNECTING", "DISCONNECTED"}
         /\ t - entry.timestamp > maxStateAge)

\* The worlds in which checkStateValid of the check of c that the step settles
\* can have run: after checkProcessAlive for a session without a page, after
\* the probe otherwise.
WorldsAtStateValid(c) ==
    IF event'.op = "performHealthCheck"
    THEN {checkProcessAlive(After(d), clients[c], c) : d \in Elapses}
    ELSE UNION {{probeSettled(After(d), t) : d \in Elapses \cup {t.due}} :
                    t \in {x \in tasks : x.pc = "evaluate" /\ x.number = c}}

\* C25 as stated: the state-valid check is false exactly when the current
\* entry of the client is WAITING_QR older than 180000 ms, INITIALIZING older
\* than 300000 ms, or AUTHENTICATING, RECONNECTING or DISCONNECTED older than
\* 900000 ms, or when there is no entry; the state it judges (kept in the
\* health record) and the age are those of the entry that is current when it
\* runs, also when an earlier check of the tick has changed the state.
C25_StateValidOfCurrentEntry ==
    [][\A c \in Clients :
        ChecksSettle(c) =>
            \E w \in WorldsAtStateValid(c) :
                /\ healthChecks'[c].checks.stateValid
                      = EntryValid(getState(StoreOf(w), c), Now)
                /\ healthChecks'[c].state = PrevStateOf(StoreOf(w), c)]_vars

\* The check of c that the step settles is the one of the scenario: the
\* client is in WAITING_QR for more than maxQrAge (200000 ms, say), its
\* browser runs and its page has answered the probe.
StaleQrCheck(c) ==
    /\ ChecksSettle(c)
    /\ healthChecks'[c].state = "WAITING_QR"
    /\ states'[c] # Absent
    /\ states'[c].state = "WAITING_QR"
    /\ Now - states'[c].timestamp > maxQrAge
    /\ healthChecks'[c].checks.processAlive
    /\ healthChecks'[c].checks.browserResponsive

-----------------------------------------------------------------------------
(* Claims about the disconnection of a client, checked under SpecSession.  *)

\* The step has recorded a transition of c to `state`.
Turns(c, state) ==
    \E i \in DOMAIN stateHistory'[c] :
        /\ stateHistory'[c][i].to = state
        /\ stateHistory'[c][i].timestamp = Now

\* The step has started nothing for c: no task, no scheduler timer, no
\* attempt counted (d ms have passed).
NothingStarted(d) ==
    /\ tasks' = After(d).tasks
    /\ armed' = After(d).armed
    /\ reconnectAttempts' = reconnectAttempts
    /\ reconnectTimers' = reconnectTimers
    /\ inflight' = inflight
    /\ clients' = clients

\* The step is a `disconnected` event of the registered session of c, which
\* is READY and holds an authenticated session.
ReadyDisconnects(c) ==
    /\ event'.op = "disconnected"
    /\ event'.number = c
    /\ clients[c] # NoSession
    /\ event'.sid = clients[c]
    /\ states[c] # Absent
    /\ states[c].state = "READY"
    /\ sessions[clients[c]].info # "none"
    /\ isAuthenticated(World, c)

\* The step is the expiry of a 30 s timer of c.
GraceExpires(c) == event'.op = "graceTimerFired" /\ event'.number = c

\* C27: a `disconnected` event of a READY client that holds an authenticated
\* session sets DISCONNECTED and starts no reconnection, only a timer of
\* 30 s; when the timer expires with the client registered and not ready the
\* reconnection path starts (DISCONNECTED is set and the session is cleaned
\* up, then the scheduler is asked for a recoverClient), and the recovery,
\* when its timer fires, sets RECONNECTING; when the timer expires with the
\* client ready, nothing is started or scheduled.
C27_GraceBeforeReconnection ==
    [][\A c \in Clients :
        /\ ReadyDisconnects(c) =>
            /\ states'[c].state = "DISCONNECTED"
            /\ states'[c].timestamp = Now
            /\ [number |-> c, due |-> graceDelay] \in graceTimers'
            /\ \E d \in Elapses : NothingStarted(d)
        /\ (GraceExpires(c) /\ clients[c] # NoSession /\ ~isReady(World, c)) =>
            /\ states'[c].state = "DISCONNECTED"
            /\ states'[c].timestamp = Now
            /\ \E t \in tasks' : /\ t.kind = "initiateReconnection"
                                 /\ t.number = c
                                 /\ t.sid = clients[c]
        /\ (GraceExpires(c) /\ isReady(World, c)) =>
            /\ \E t \in graceTimers :
                /\ NothingStarted(t.due)
                /\ states' = After(t.due).states
        /\ (event'.op = "initiateReconnection.schedule" /\ event'.number = c) =>
            \/ \E t \in armed' : /\ t.number = c
                                 /\ t.callback = "recoverClient"
                                 /\ t.armedAt = Now
                                 /\ reconnectTimers'[c] = t.id
            \/ armed' = armed /\ reconnectAttempts' = reconnectAttempts
        /\ (/\ event'.op = "timerFired"
            /\ event'.number = c
            /\ \E t \in armed : t.id = event'.id /\ t.callback = "recoverClient") =>
            Turns(c, "RECONNECTING")]_vars

\* The whole scenario has run: READY, DISCONNECTED by the event, DISCONNECTED
\* again by the reconnection path 30 s later, RECONNECTING by the recovery.
C27_Witness ==
    /\ event.op = "timerFired"
    /\ \E c \in Clients :
        /\ event.number = c
        /\ Len(stateHistory[c]) >= 3
        /\ LET n == Len(stateHistory[c])
           IN  /\ stateHistory[c][n].to = "RECONNECTING"
               /\ stateHistory[c][n].from = "DISCONNECTED"
               /\ stateHistory[c][n - 1].to = "DISCONNECTED"
               /\ stateHistory[c][n - 1].from = "DISCONNECTED"
               /\ stateHistory[c][n - 2].to = "DISCONNECTED"
               /\ stateHistory[c][n - 2].from = "READY"

-----------------------------------------------------------------------------
(* Claims about fullRestart and the scheduler's delays.                    *)

\* The step runs fullRestart(c) from the catch block of refreshClient or of
\* reconnectWebSocket while c is not in the client map.
RestartsAbsentClient(c) ==
    /\ event'.op \in {"refreshClient.rejected", "reconnectWebSocket.rejected"}
    /\ event'.number = c
    /\ clients[c] = NoSession

\* C28 as stated: fullRestart(number) of a client that is absent from the
\* client map is a no-op: the client map, the state store and the scheduler's
\* record of the client (attempt counter, armed timer) are as before.
C28_RestartOfAbsentClientIsNoOp ==
    [][\A c \in Clients :
        RestartsAbsentClient(c) =>
            \E d \in Elapses :
                /\ clients' = clients
                /\ states' = After(d).states
                /\ stateHistory' = After(d).stateHistory
                /\ reconnectAttempts' = reconnectAttempts
                /\ reconnectTimers' = reconnectTimers
                /\ armed' = After(d).armed]_vars

\* The delay before the cap: baseDelay * backoffMultiplier ^ attempt.
Uncapped(attempt) == baseDelay * Pow(backoffMultiplier, attempt)

\* The step arms a timer for c, as attempt reconnectAttempts'[c]
\* (scheduleReconnection called by a caller or by a failed callback).
Arms(c, timer) ==
    /\ timer \in armed'
    /\ timer.number = c
    /\ timer.armedAt = Now
    /\ timer.id = reconnectTimers'[c]
    /\ reconnectAttempts'[c] = reconnectAttempts[c] + 1

\* Attempt numbers for which the delays are compared beyond those the
\* scheduler reaches with maxAttempts.
MaxAttemptCompared == 7

\* Math.random() is below 1: calculateDelay with k = RandomSteps is an upper
\* bound of the delay of an attempt, with k = 0 it is the least delay.
JitterRange == 0..RandomSteps

\* C29: the delay of attempt n + 1 of a client is at least the delay of its
\* attempt n, whatever the jitter of either, as long as the delay of attempt
\* n before the jitter is below maxDelay: for the timers the scheduler arms,
\* and for calculateDelay up to the attempt at which the cap is reached.
C29_DelayGrowsWithAttempts ==
    /\ [][\A c \in Clients : \A timer \in armed' :
            (/\ Arms(c, timer)
             /\ reconnectAttempts[c] >= 1
             /\ Uncapped(reconnectAttempts[c]) < maxDelay) =>
                \A k \in JitterRange :
                    timer.due - Now >= calculateDelay(reconnectAttempts[c], k)]_vars
    /\ [](\A n \in 1..MaxAttemptCompared : \A k1, k2 \in JitterRange :
            Uncapped(n) < maxDelay =>
                calculateDelay(n + 1, k2) >= calculateDelay(n, k1))

\* A second attempt in a row has been scheduled.
C29_Witness ==
    /\ event.op = "scheduleReconnection"
    /\ event.value # Null
    /\ event.value.attempt = 2
    /\ \E t \in armed : /\ t.number = event.number
                        /\ t.armedAt = Now
                        /\ t.due = Now + event.value.delay

\* min(baseDelay * backoffMultiplier ^ attempt, maxDelay)
Unjittered(attempt) == Min(Uncapped(attempt), maxDelay)

\* delay is within +-jitterFactor of the un-jittered delay of the attempt.
WithinJitter(delay, attempt) ==
    /\ delay * jitterFactorInv >= Unjittered(attempt) * (jitterFactorInv - 1)
    /\ delay * jitterFactorInv <= Unjittered(attempt) * (jitterFactorInv + 1)

\* C30: an accepted scheduleReconnection returns the attempt number a (one
\* more than the attempts counted since the last reset) and a delay within
\* +-10% of min(baseDelay * backoffMultiplier^a, maxDelay), and arms its
\* timer with that delay; so does the scheduling by a failed callback; the
\* un-jittered delay of the first attempt is 5000 * 2 and none exceeds
\* 300000.
C30_DelayWithinJitterOfBackoff ==
    /\ [][\A c \in Clients :
            /\ (/\ event'.op = "scheduleReconnection"
                /\ event'.number = c
                /\ event'.value # Null) =>
                    /\ event'.value.attempt = reconnectAttempts[c] + 1
                    /\ WithinJitter(event'.value.delay, event'.value.attempt)
                    /\ \E timer \in armed' :
                        /\ Arms(c, timer)
                        /\ timer.due = Now + event'.value.delay
            /\ \A timer \in armed' :
                Arms(c, timer) =>
                    WithinJitter(timer.due - Now, reconnectAttempts'[c])]_vars
    /\ [](/\ Unjittered(1) = baseDelay * backoffMultiplier
          /\ \A a \in 1..MaxAttemptCompared : Unjittered(a) <= maxDelay)

\* The third accepted call in a row has armed its timer.
C30_Witness ==
    /\ event.op = "scheduleReconnection"
    /\ event.value # Null
    /\ event.value.attempt = 3
    /\ reconnectAttempts[event.number] = 3
    /\ \E t \in armed : /\ t.number = event.number
                        /\ t.id = reconnectTimers[event.number]
                        /\ t.due = Now + event.value.delay

-----------------------------------------------------------------------------
(* The number of attempts the scheduler allows, checked under SpecRecon.   *)

\* The `|| 10` of `maxAttempts: config.maxRetries || 10`.
fallbackMaxAttempts == 10

\* The 2 s guard of canReconnect does not apply to c now.
SpacingOpen(c) ==
    ~(/\ Truthy(lastReconnectTime[c])
      /\ Now - lastReconnectTime[c] < minSpacing)

\* C31 as stated: without environment overrides the scheduler allows 10
\* attempts per client: a scheduleReconnection that the 2 s guard does not
\* stop is rejected with null exactly when 10 attempts have been counted since
\* the last reset.
C31_TenAttemptsAllowed ==
    [][\A c \in Clients :
        (/\ event'.op = "scheduleReconnection"
         /\ event'.number = c
         /\ SpacingOpen(c)) =>
            (event'.value = Null <=> reconnectAttempts[c] >= fallbackMaxAttempts)]_vars

-----------------------------------------------------------------------------
(* Claims about the media queue, checked under SpecMedia.                  *)

\* The media queue after the step.
MQAfter ==
    [queue |-> queue', processing |-> processing', completed |-> completed',
     workers |-> workers']

\* The completed entry is more than one hour old.
OlderThanOneHour(entry) == Now - entry.processedAt > retention

\* The step is a run of cleanup that found the queue as `before` and has
\* deleted the entries older than one hour and nothing else.
PurgesFrom(before) ==
    /\ \A m \in MessageIds :
        completed'[m] =
            IF before.completed[m] # Absent /\ OlderThanOneHour(before.completed[m])
            THEN Absent
            ELSE before.completed[m]
    /\ queue' = before.queue
    /\ processing' = before.processing
    /\ workers' = before.workers

\* C32: a run of the periodic cleanup removes from the completed map exactly
\* the entries (results and errors) processed more than one hour before it,
\* keeps the others and leaves the queue, the processing set and the jobs in
\* progress as they are; getStatus of a purged messageId is not_found, and an
\* enqueue of a messageId whose status is not_found creates a fresh job
\* (attempts 0, enqueued now) at the end of the queue.
C32_CleanupPurgesOldEntries ==
    [][/\ event'.op = "cleanup" =>
            /\ \E t \in CleanupInstants : PurgesFrom(ShiftMQ(MQ, t - Now))
            /\ \A m \in MessageIds :
                (completed[m] # Absent /\ completed'[m] = Absent) =>
                    MediaQueue_getStatus(MQAfter, m) = [status |-> "not_found"]
       /\ \A m \in MessageIds :
            (/\ event'.op = "enqueue"
             /\ event'.messageId = m
             /\ MediaQueue_getStatus(MQ, m).status = "not_found") =>
                /\ event'.value = "enqueued"
                /\ Len(queue') = Len(queue) + 1
                /\ queue'[Len(queue')] =
                        [messageId |-> m, priority |-> event'.priority,
                         attempts |-> 0, enqueuedAt |-> Now]
                /\ MediaQueue_getStatus(MQAfter, m).status = "queued"]_vars

\* A run of cleanup has purged the entry of one message and kept the younger
\* entry of another.
C32_Witness ==
    /\ event.op = "cleanup"
    /\ \E m, n \in MessageIds :
        /\ mediaJobs[m].runs > 0
        /\ ~mediaJobs[m].live
        /\ completed[m] = Absent
        /\ MediaQueue_getStatus(MQ, m).status = "not_found"
        /\ completed[n] # Absent
        /\ ~OlderThanOneHour(completed[n])

\* The downloads of m in progress: those the workers await and those left
\* running by a job timeout.
DownloadsInProgress(m) ==
    Cardinality({w \in WorkerIds : workers[w] # NoJob /\ workers[w].job.messageId = m})
        + mediaJobs[m].abandoned

\* C33 as stated: at most one download of a messageId is in progress at any
\* moment, a download abandoned by the 30 s job timeout included, and no
\* messageId is in the queue and in the processing set at once when a worker
\* can pick a job.
C33_OneDownloadPerMessage ==
    \A m \in MessageIds :
        /\ DownloadsInProgress(m) <= 1
        /\ ~(QueueHas(MQ, m) /\ m \in processing)


-----------------------------------------------------------------------------
(* The quick download of handleMediaSmart, checked under SpecSmart.        *)

\* The types whose media is inlined as base64, and the types saved to a temp
\* file (downloadAndProcessMedia, part_003 263 and 267).
lightTypes == {"sticker", "image", "audio", "ptt"}
heavyTypes == {"document", "video"}

\* C34 as stated: for a message that is neither completed in the queue nor
\* saved as a temp file, the quick download is attempted for every light type
\* (sticker, image, ptt, audio) and for no heavy type (document, video), and
\* the message is enqueued only from the failed quick download (light types)
\* or directly (heavy types).
C34_QuickPathForLightTypes ==
    /\ event.op = "handleMediaSmart.quick" => event.type \in lightTypes
    /\ (event.op = "handleMediaSmart" /\ event.via = "enqueue") =>
            IF event.type \in lightTypes
            THEN event.from = "quickDownload"
            ELSE event.type \in heavyTypes /\ event.from = "checkTempFileExists"

-----------------------------------------------------------------------------
(* The session-link check of the watchdog, checked under Spec.             *)

\* The states of a normal startup.
StartupStates == {"INITIALIZING", "AUTHENTICATING", "WAITING_QR"}

\* The worlds in which the session-link check of the check of c that the
\* step settles can have run, each with the session the check holds: after
\* checkProcessAlive for a session without a page, after the probe otherwise.
LinkChecks(c) ==
    IF event'.op = "performHealthCheck"
    THEN {[w |-> checkProcessAlive(After(d), clients[c], c), sid |-> clients[c]] :
            d \in Elapses}
    ELSE UNION {{[w |-> probeSettled(After(d), t), sid |-> t.sid] :
                    d \in Elapses \cup {t.due}} :
                 t \in {x \in tasks : x.pc = "evaluate" /\ x.number = c}}

\* What the claim expects of the session-link check in world w for session
\* sid of client c.
LinkExpected(w, sid, c) ==
    IF w.states[c] # Absent /\ w.states[c].state \in StartupStates
    THEN TRUE
    ELSE w.sessions[sid].info # "none" \/ isReady(w, c)

\* C35: the session-link check of a watchdog check is true whenever the
\* client's current state is INITIALIZING, AUTHENTICATING or WAITING_QR,
\* whatever the session's identity and readiness; in every other state (and
\* without a state entry) it is true exactly when the session has an identity
\* (info) or the client is fully ready.
C35_LinkCheckAllowsStartup ==
    [][\A c \in Clients :
        ChecksSettle(c) =>
            \E x \in LinkChecks(c) :
                healthChecks'[c].checks.websocketActive
                    = LinkExpected(x.w, x.sid, c)]_vars

\* A check has settled healthy for a client in a startup state whose session
\* has no identity.
C35_Witness ==
    /\ event.op = "checkClientHealth.checked"
    /\ healthChecks[event.number] # Absent
    /\ healthChecks[event.number].checks.websocketActive
    /\ healthChecks[event.number].isHealthy
    /\ states[event.number] # Absent
    /\ states[event.number].state \in StartupStates
    /\ clients[event.number] # NoSession
    /\ sessions[clients[event.number]].info = "none"

-----------------------------------------------------------------------------
(* The first transition of a client, checked under Spec.                   *)

-----------------------------------------------------------------------------
(* getStatus of the scheduler, checked under SpecRecon.                    *)

\* C37 as stated: getStatus(id).hasScheduledReconnect is true exactly when a
\* reconnection timer of id is armed and has not fired yet.
C37_ScheduledMeansArmed ==
    \A c \in Clients :
        getStatus(RM, c, Now).hasScheduledReconnect
            <=> \E timer \in armed : timer.number = c

-----------------------------------------------------------------------------
(* The sessions of a client, checked under Spec.                           *)

\* C38 as stated: every session that was created and is not destroyed is the
\* one registered for its client in the client map, so that a client has at
\* most one live session.
C38_LiveSessionIsRegistered ==
    \A sid \in SessionIds :
        sessions[sid].live => clients[sessions[sid].number] = sid


(***************************************************************************)
(* C39: in every watchdog summary healthyClients + unhealthyClients =      *)
(* totalClients with 0 <= healthyClients <= totalClients and               *)
(* unhealthyClients >= 0, totalClients being the number of clients in the  *)
(* client map when the summary was written; the health record of a client  *)
(* that is no longer in the map is not counted.                            *)
(***************************************************************************)
SummaryWritten ==
    /\ metrics' # metrics
    /\ metrics' # NoMetrics

RegisteredAfter == {c \in Clients : clients'[c] # NoSession}

C39_SummaryCountsRegisteredClients ==
    [][SummaryWritten =>
        /\ metrics'.totalClients = Cardinality(RegisteredAfter)
        /\ metrics'.healthyClients + metrics'.unhealthyClients
               = metrics'.totalClients
        /\ 0 <= metrics'.healthyClients
        /\ metrics'.healthyClients <= metrics'.totalClients
        /\ metrics'.unhealthyClients >= 0]_vars


-----------------------------------------------------------------------------
(* SpecSummary: the service layer adds and removes a client while the      *)
(* watchdog ticks; the session emits no event and its browser does not     *)
(* fail, which leaves room for one more call or tick than Spec has.  The   *)
(* continuations that need a session event (reconnectWebSocket's reload,   *)
(* the cleanup of a disconnected session) have no run here.                *)

\* API calls and watchdog ticks of a behaviour of SpecSummary.
MaxSummaryStimuli == 4

InitSummary ==
    /\ states = [c \in Clients |-> Absent]
    /\ stateHistory = [c \in Clients |-> << >>]
    /\ event = NoEvent
    /\ recorded = [c \in Clients |-> << >>]
    /\ script = << >>
    /\ reconnectAttempts = [c \in Clients |-> 0]
    /\ reconnectTimers = [c \in Clients |-> NoTimer]
    /\ lastReconnectTime = [c \in Clients |-> NoTime]
    /\ armed = {}
    /\ inflight = {}
    /\ InitOrchestrator
    /\ stimuli = MaxSummaryStimuli
    /\ InitMQ
    /\ InitCC

NextSummary ==
    \/ \E c \in Clients : ApiAddClient(c)
    \/ \E c \in Clients : ApiRemoveClient(c)
    \/ WatchdogTick
    \/ \E timer \in armed : ReconnectTimerFires(timer)
    \/ \E sid \in SessionIds : SessionLaunches(sid)
    \/ \E task \in tasks :
        \/ MkdirResolves(task)
        \/ InitializeResolves(task)
        \/ InitializeRejects(task)
        \/ LogoutResolves(task)
        \/ RemoveClientReturns(task)
        \/ RemoveClientThrows(task)
        \/ EvaluateSettles(task)
        \/ FullRestartCleaned(task)
        \/ RefreshResolves(task)
        \/ RefreshRejects(task)

SpecSummary == InitSummary /\ [][NextSummary]_vars


-----------------------------------------------------------------------------
(* SpecRemoval: one client is added, becomes ready and is removed, with    *)
(* the chat cache: the ready handler schedules the deferred load,          *)
(* removeClient clears the cache before it awaits logout(), and the load   *)
(* goes on at its timer and at the end of its getChats().  A cache task    *)
(* carries the session whose getChats() it awaits.                         *)

\* API calls and session events of a behaviour of SpecRemoval.
MaxRemovalStimuli == 3

InitRemoval ==
    /\ states = [c \in Clients |-> Absent]
    /\ stateHistory = [c \in Clients |-> << >>]
    /\ event = NoEvent
    /\ recorded = [c \in Clients |-> << >>]
    /\ script = << >>
    /\ reconnectAttempts = [c \in Clients |-> 0]
    /\ reconnectTimers = [c \in Clients |-> NoTimer]
    /\ lastReconnectTime = [c \in Clients |-> NoTime]
    /\ armed = {}
    /\ inflight = {}
    /\ InitOrchestrator
    /\ stimuli = MaxRemovalStimuli
    /\ InitMQ
    /\ InitCC

\* An API call or a session event that reaches the cache too.
RemovalStimulus ==
    /\ stimuli > 0
    /\ stimuli' = stimuli - 1
    /\ UNCHANGED <<storeVars, mediaVars, cacheClock, cacheOps>>

\* A step of a cache load; the orchestrator's maps stay as they are.
RemovalLoadStep ==
    UNCHANGED <<states, stateHistory, storeVars, rmVars, waVars, mediaVars,
                cacheClock, cacheOps>>

\* The session emits 'ready': the handler sets READY and schedules the
\* deferred load of the cache unless one is scheduled.
ReadyEmitted(sid) ==
    LET c == sessions[sid].number IN
    /\ RemovalStimulus
    /\ sessions[sid].live
    /\ sessions[sid].browser = "connected"
    /\ \E k \in SpecRandoms :
        /\ SetWorld(onEvent(World, sid, "ready", k))
        /\ Observe(onEvent(World, sid, "ready", k), {}, FALSE)
    /\ cacheInitScheduled' = [cacheInitScheduled EXCEPT ![c] = TRUE]
    /\ cacheTasks' = IF cacheInitScheduled[c] THEN cacheTasks
                     ELSE cacheTasks \cup {[kind |-> "deferred", number |-> c,
                                            pc |-> "timer", sid |-> sid]}
    /\ event' = [op |-> "ready", number |-> c, sid |-> sid]
    /\ UNCHANGED <<chatCache, unreadChats, groupCache, isLoaded, groupsLoaded, loads>>

\* removeClient(c) is called: clearCache, then the await of logout().
RemoveCalled(c) ==
    /\ RemovalStimulus
    /\ clients[c] # NoSession
    /\ SetWorld(removeClient(World, c))
    /\ Observe(removeClient(World, c), {}, FALSE)
    /\ SetCC(clearCache(CC, c))
    /\ loads' = [loads EXCEPT ![c] = 0]
    /\ event' = [op |-> "removeClient", number |-> c]
    /\ UNCHANGED <<cacheInitScheduled, cacheTasks>>

\* The timer of the ready handler fires: initializeChatCache returns when
\* the client is not in the map or its cache is ready (the finally block
\* deletes the flag), and awaits getChats() of the registered client
\* otherwise.
DeferredLoadStarts(task) ==
    LET c == task.number IN
    /\ RemovalLoadStep
    /\ task.kind = "deferred"
    /\ task.pc = "timer"
    /\ IF clients[c] = NoSession \/ isCacheReady(CC, c)
       THEN /\ cacheTasks' = cacheTasks \ {task}
            /\ cacheInitScheduled' = [cacheInitScheduled EXCEPT ![c] = FALSE]
       ELSE /\ cacheTasks' = (cacheTasks \ {task}) \cup
                                {[task EXCEPT !.pc = "getChats", !.sid = clients[c]]}
            /\ UNCHANGED cacheInitScheduled
    /\ event' = [op |-> "initializeChatCache", number |-> c]
    /\ UNCHANGED <<chatCache, unreadChats, groupCache, isLoaded, groupsLoaded, loads>>

\* getChats() of the load resolves while the browser of its session runs,
\* and the load calls initializeCache.
LoadResolves(task) ==
    /\ task.pc = "getChats"
    /\ sessions[task.sid].browser = "connected"
    /\ GetChatsResolves(task.number)

\* getChats() of the load rejects, or its 30 s are over.
LoadRejects(task) ==
    /\ task.pc = "getChats"
    /\ GetChatsRejects(task.number)

NextRemoval ==
    \/ \E c \in Clients : clients[c] = NoSession /\ tasks = {} /\ ApiAddClient(c)
    \/ \E c \in Clients : RemoveCalled(c)
    \/ \E sid \in SessionIds : ReadyEmitted(sid)
    \/ \E sid \in SessionIds : SessionLaunches(sid)
    \/ \E task \in tasks :
        \/ MkdirResolves(task)
        \/ InitializeResolves(task)
        \/ InitializeRejects(task)
        \/ LogoutResolves(task)
        \/ RemoveClientReturns(task)
        \/ RemoveClientThrows(task)
    \/ \E task \in cacheTasks :
        \/ DeferredLoadStarts(task)
        \/ LoadResolves(task)
        \/ LoadRejects(task)

SpecRemoval == InitRemoval /\ [][NextRemoval]_vars


(***************************************************************************)
(* C40: once removeClient(number) has returned, isCacheReady(number) is    *)
(* false and getAllChats, getUnreadChats and getAllGroups return empty     *)
(* lists until the client is added again, also when a deferred load of     *)
(* the cache was awaiting getChats() when removeClient started.            *)
(***************************************************************************)
CacheEmpty(c) ==
    /\ ~isCacheReady(CC, c)
    /\ getAllChats(CC, c) = {}
    /\ getUnreadChats(CC, c) = {}
    /\ getAllGroups(CC, c) = {}

C40_CacheEmptyAfterRemoval ==
    \A c \in Clients : removed[c] = "removed" => CacheEmpty(c)

=============================================================================
